---------------------------- MODULE Spec2Model ----------------------------
(***************************************************************************)
(* Agent Mesh platform: the agent registry with its liveness supervisor    *)
(* (mesh_platform/src/platform.py, redis_client.py) and the flow execution *)
(* engine (mesh_platform/src/flow_engine.py).                              *)
(*                                                                         *)
(* The platform is one asyncio process.  RedisClient is a synchronous      *)
(* client, so a coroutine runs from one `await` to the next without        *)
(* interleaving; every action below is one such stretch of code.  The      *)
(* store is assumed available (no call of RedisClient raises).             *)
(*                                                                         *)
(* Specifications:                                                         *)
(*   Spec      registry + supervisor: startup restoration, registration,   *)
(*             deletion, cleanup, per-agent probers.                       *)
(*   SpecFlow  one run of FlowExecutionEngine.execute_flow over a flow     *)
(*             drawn from a bounded family, with a concurrent delete_flow. *)
(*   SpecFlowLive  SpecFlow with weak fairness of the engine's steps.      *)
(***************************************************************************)
EXTENDS Integers, Sequences, FiniteSets, TLC

VARIABLES
    agentRec,     \* redis hashes agent:{name}: record or NoRec
    agentSet,     \* redis set "agents"
    ping_tasks,   \* PlatformCore.ping_tasks: agent name -> task id
    tasks,        \* every prober task created so far: task id -> task state
    restore,      \* progress of _restore_existing_agents
    reqs,         \* registration requests suspended in a handler
    resp,         \* the response of the last request that returned
    flows,        \* redis flow:{id} with flow:{id}:agents: flow id -> definition
    execs,        \* redis flow:{id}:execution:{eid}: execution id -> record
    execList,     \* redis flow:{id}:executions: flow id -> list of execution ids
    eng,          \* the engine coroutine of one execute_flow call
    run           \* the _execute_agent_with_retry coroutines it launched

regVars  == <<agentRec, agentSet, ping_tasks, tasks, restore, reqs, resp>>
flowVars == <<flows, execs, execList, eng, run>>
vars     == <<agentRec, agentSet, ping_tasks, tasks, restore, reqs, resp,
              flows, execs, execList, eng, run>>

(***************************************************************************)
(* Bounds of the model.                                                    *)
(***************************************************************************)
MaxAgents == 1      \* agent names the registry requests range over
MaxTasks  == 2      \* prober tasks created in one behaviour
MaxReqs    == 2      \* registration requests in flight at once
MaxRestored == 2    \* agents in the registry a starting platform finds

AllNames   == <<"a", "b", "c", "d", "e">>
AgentNames == {AllNames[i] : i \in 1..MaxAgents}
\* the path segments a DELETE /platform/agents/... request may carry
Segments   == AgentNames \cup {"cleanup"}
TaskIds    == 1..MaxTasks

\* a timestamp is the kind of write that set it: datetime.now() in
\* register_agent or in update_agent_status
AtRegister == "at_register"
AtUpdate   == "at_update"

NoRec  == [status |-> "none", capabilities |-> <<>>, data |-> 0,
           registered_at |-> "", last_verified |-> ""]

\* max_failures of _ping_agent_loop
max_failures == 3

(***************************************************************************)
(* RedisClient: agents.  A store state is st = [rec, set].                 *)
(***************************************************************************)
Exists(st, name) == name \in DOMAIN st.rec /\ st.rec[name] # NoRec

\* register_agent that treats an inactive record as absent
Faulty_register_agent_over_inactive(st, agent_data) ==
    LET name == agent_data.agent_name IN
    IF Exists(st, name) /\ st.rec[name].status # "inactive"
    THEN [ok |-> FALSE, st |-> st]
    ELSE [ok |-> TRUE,
          st |-> [rec |-> [st.rec EXCEPT ![name] =
                              [status        |-> "active",
                               capabilities  |-> agent_data.capabilities,
                               data          |-> agent_data.data,
                               registered_at |-> AtRegister,
                               last_verified |-> AtRegister]],
                  set |-> st.set \cup {name}]]

\* register_agent: insert if absent, status active, add to the name set
RedisClient_register_agent(st, agent_data) ==
    LET name == agent_data.agent_name IN
    IF Exists(st, name)
    THEN [ok |-> FALSE, st |-> st]
    ELSE [ok |-> TRUE,
          st |-> [rec |-> [st.rec EXCEPT ![name] =
                              [status        |-> "active",
                               capabilities  |-> agent_data.capabilities,
                               data          |-> agent_data.data,
                               registered_at |-> AtRegister,
                               last_verified |-> AtRegister]],
                  set |-> st.set \cup {name}]]

\* get_agent: None when the hash does not exist
RedisClient_get_agent(st, name) == IF Exists(st, name) THEN st.rec[name] ELSE NoRec

\* list_agents: the records of the names of the set that have a hash
RedisClient_list_agents(st) == {n \in st.set : RedisClient_get_agent(st, n) # NoRec}

\* update_agent_status without the exists test: hset creates a hash that
\* holds the two fields
Faulty_update_agent_status_hset(st, name, status) ==
    IF ~ Exists(st, name)
    THEN [ok |-> TRUE,
          st |-> [st EXCEPT !.rec[name] =
                     [status |-> status, capabilities |-> <<>>, data |-> 0,
                      registered_at |-> AtUpdate, last_verified |-> AtUpdate]]]
    ELSE [ok |-> TRUE,
          st |-> [st EXCEPT !.rec[name].status = status,
                            !.rec[name].last_verified = AtUpdate]]

\* update_agent_status: nothing when the hash does not exist
RedisClient_update_agent_status(st, name, status) ==
    IF ~ Exists(st, name)
    THEN [ok |-> FALSE, st |-> st]
    ELSE [ok |-> TRUE,
          st |-> [st EXCEPT !.rec[name].status = status,
                            !.rec[name].last_verified = AtUpdate]]

\* delete_agent that forgets the srem of the name
Faulty_delete_agent_no_srem(st, name) ==
    IF ~ Exists(st, name)
    THEN [ok |-> FALSE, st |-> st]
    ELSE [ok |-> TRUE, st |-> [st EXCEPT !.rec[name] = NoRec]]

\* delete_agent: delete the hash, srem the name
RedisClient_delete_agent(st, name) ==
    IF ~ Exists(st, name)
    THEN [ok |-> FALSE, st |-> st]
    ELSE [ok |-> TRUE,
          st |-> [rec |-> [st.rec EXCEPT ![name] = NoRec],
                  set |-> st.set \ {name}]]

\* cleanup_all_agents: delete_agent for every member of the set, counting
RECURSIVE cleanup_loop(_, _, _)
cleanup_loop(st, todo, count) ==
    IF todo = {} THEN [count |-> count, st |-> st]
    ELSE LET n == CHOOSE x \in todo : TRUE
             d == RedisClient_delete_agent(st, n)
         IN  cleanup_loop(d.st, todo \ {n}, IF d.ok THEN count + 1 ELSE count)

RedisClient_cleanup_all_agents(st) == cleanup_loop(st, st.set, 0)

Store == [rec |-> agentRec, set |-> agentSet]

SetStore(st) ==
    /\ agentRec' = st.rec
    /\ agentSet' = st.set

(***************************************************************************)
(* Supervisor: the prober tasks.  A task is in its loop ("live"), has been *)
(* cancelled, or has left the loop after an eviction ("done").             *)
(* Task.cancel() makes the event loop throw CancelledError into the task   *)
(* when it is next resumed, at the sleep or at the probe it is suspended   *)
(* in, before any of its own code runs: the except clause breaks the loop, *)
(* so a cancelled task takes no further step.                              *)
(* `fails` is the local consecutive_failures; `streak` is history: the     *)
(* number of loop iterations that failed since the task started or last    *)
(* had a successful probe.                                                 *)
(***************************************************************************)
NewTask(name) == [name |-> name, st |-> "live", fails |-> 0, streak |-> 0]

HasTask(pt, name) == name \in DOMAIN pt

\* Task.cancel()
Cancel(ts, t) == [ts EXCEPT ![t] = [name |-> ts[t].name, st |-> "cancelled", fails |-> 0,
                                streak |-> 0]]

DictDel(pt, name) == [n \in (DOMAIN pt) \ {name} |-> pt[n]]

DictSet(pt, name, v) == [n \in (DOMAIN pt) \cup {name} |-> IF n = name THEN v ELSE pt[n]]

\* _start_agent_ping_loop without the cancellation of the task it replaces
Faulty_start_no_cancel(pt, ts, name) ==
    [pt |-> DictSet(pt, name, Len(ts) + 1), ts |-> Append(ts, NewTask(name))]

\* _start_agent_ping_loop: cancel the existing task of the name, create a
\* task, store it under the name
start_agent_ping_loop(pt, ts, name) ==
    LET ts1 == IF HasTask(pt, name) THEN Cancel(ts, pt[name]) ELSE ts
    IN  [pt |-> DictSet(pt, name, Len(ts1) + 1),
         ts |-> Append(ts1, NewTask(name))]

CanSpawn == Len(tasks) < MaxTasks

\* the eviction of _ping_agent_loop with a threshold that is off by one
Faulty_evict_late(fails) == fails > max_failures

\* if consecutive_failures >= max_failures
EvictionDue(fails) == fails >= max_failures

\* eviction that leaves the entry of the prober table
Faulty_evict_keep_entry(pt, name) == pt

\* if agent_name in self.ping_tasks: del self.ping_tasks[agent_name]
EvictEntry(pt, name) == IF HasTask(pt, name) THEN DictDel(pt, name) ELSE pt

\* a successful probe that leaves the counter as it was
Faulty_no_reset(fails) == fails

\* if success: consecutive_failures = 0
ResetFailures(fails) == 0

\* one iteration of the while loop of _ping_agent_loop: the sleep returned,
\* then _ping_agent returned `success`
ping_agent_loop(t, success) ==
    /\ t \in DOMAIN tasks
    /\ tasks[t].st = "live"
    /\ LET name == tasks[t].name IN
       IF success
       THEN /\ tasks' = [tasks EXCEPT ![t].fails = ResetFailures(@), ![t].streak = 0]
            /\ SetStore(RedisClient_update_agent_status(Store, name, "active").st)
            /\ UNCHANGED ping_tasks
       ELSE LET f == tasks[t].fails + 1
                k == IF tasks[t].streak < max_failures THEN tasks[t].streak + 1
                     ELSE max_failures IN
            IF EvictionDue(f)
            THEN /\ SetStore(RedisClient_delete_agent(Store, name).st)
                 /\ ping_tasks' = EvictEntry(ping_tasks, name)
                 /\ tasks' = [tasks EXCEPT ![t].fails = f, ![t].streak = k,
                                           ![t].st = "done"]
            ELSE /\ tasks' = [tasks EXCEPT ![t].fails = f, ![t].streak = k]
                 /\ UNCHANGED <<agentRec, agentSet, ping_tasks>>
    /\ UNCHANGED <<restore, reqs, resp, flowVars>>

(***************************************************************************)
(* Startup restoration (_restore_existing_agents).  It runs in the startup *)
(* event, before the server accepts a request; probers it has started run  *)
(* while it awaits the verification of the next agent.  `found` is the     *)
(* list existing_agents, `todo` the part of it the loop has not reached;   *)
(* both are gone when the function returns.                                *)
(***************************************************************************)
Restoring == restore.pc # "done"

\* existing_agents = self.redis_client.list_agents()
RestoreList ==
    /\ restore.pc = "list"
    /\ LET found == RedisClient_list_agents(Store) IN
       restore' = [pc |-> IF found = {} THEN "done" ELSE "loop", todo |-> found,
                   found |-> found]
    /\ UNCHANGED <<agentRec, agentSet, ping_tasks, tasks, reqs, resp, flowVars>>

\* restoration that deletes an agent it cannot reach
Faulty_restore_unreachable(st, name) == RedisClient_delete_agent(st, name).st

\* restoration that leaves the status of an agent it cannot reach
Faulty_restore_keep_status(st, name) == st

\* except Exception: self.redis_client.update_agent_status(agent_name, "inactive")
restore_unreachable(st, name) ==
    RedisClient_update_agent_status(st, name, "inactive").st

\* one iteration of the loop: _verify_agent_connection(agent) returned or raised
RestoreAgent(name, reachable) ==
    /\ restore.pc = "loop"
    /\ name \in restore.todo
    /\ IF reachable
       THEN /\ CanSpawn
            /\ LET s == start_agent_ping_loop(ping_tasks, tasks, name) IN
               /\ ping_tasks' = s.pt
               /\ tasks' = s.ts
            /\ UNCHANGED <<agentRec, agentSet>>
       ELSE /\ SetStore(restore_unreachable(Store, name))
            /\ UNCHANGED <<ping_tasks, tasks>>
    /\ LET rest == restore.todo \ {name} IN
       restore' = [pc |-> IF rest = {} THEN "done" ELSE "loop", todo |-> rest,
                   found |-> IF rest = {} THEN {} ELSE restore.found]
    /\ UNCHANGED <<reqs, resp, flowVars>>

(***************************************************************************)
(* Request handlers of the router.                                         *)
(***************************************************************************)
Versions == {1, 2}

\* the JSON bodies of the registration requests: well-formed ones, one with
\* a required field missing, one whose capabilities is no list, one whose
\* capabilities is the empty list
Payload(name, data, missing, is_list, capabilities) ==
    [agent_name |-> name, data |-> data, missing |-> missing,
     capabilities_is_list |-> is_list, capabilities |-> capabilities]

WellFormed == {Payload(n, d, FALSE, TRUE, <<"cap">>) : n \in AgentNames, d \in Versions}

Malformed ==
    UNION {{Payload(n, 1, TRUE, TRUE, <<"cap">>),
            Payload(n, 1, FALSE, FALSE, <<"cap">>),
            Payload(n, 1, FALSE, TRUE, <<>>)} : n \in AgentNames}

Payloads == WellFormed \cup Malformed

\* a response: the operation, the status code, deleted_count, and for a
\* registration the outcome of the verification probe the handler saw
Response(op, code, count, probe) ==
    [op |-> op, code |-> code, count |-> count, probe |-> probe]

\* validation that checks the presence of the fields only
Faulty_validation(agent_data) == ~ agent_data.missing

\* if missing_fields / if not isinstance(capabilities, list) or not capabilities
Validation(agent_data) ==
    /\ ~ agent_data.missing
    /\ agent_data.capabilities_is_list
    /\ agent_data.capabilities # <<>>

\* the re-registration branch taken whenever the name exists
Faulty_stale(existing, pt, name) == existing # NoRec

\* if existing_agent and agent_name not in self.ping_tasks
Stale(existing, pt, name) == existing # NoRec /\ ~ HasTask(pt, name)

\* the frame of a handler suspended in its verification: the request body
\* and whether the handler came through the re-registration branch
Frame(agent_data, stale) == agent_data @@ [stale |-> stale]

Frames(agent_data) == {Frame(agent_data, stale) : stale \in BOOLEAN}

\* the requests suspended in `await self._verify_agent_connection(agent_data)`
Verifying(name) == {d \in reqs : d.agent_name = name}

\* re-registration that skips the deletion of the stale record
Faulty_reinitialize_keep(st, agent_data) == RedisClient_register_agent(st, agent_data)

\* self.redis_client.delete_agent(agent_name) followed by
\* self.redis_client.register_agent(agent_data)
reinitialize(st, agent_data) ==
    RedisClient_register_agent(
        RedisClient_delete_agent(st, agent_data.agent_name).st, agent_data)

\* register_agent up to `await self._verify_agent_connection(agent_data)`:
\* validation, insert, and the re-registration of a record without a prober
register_agent(agent_data) ==
    /\ ~ Restoring
    /\ Cardinality(reqs) < MaxReqs
    /\ Frames(agent_data) \cap reqs = {}
    /\ LET name == agent_data.agent_name
           ins  == RedisClient_register_agent(Store, agent_data)
       IN
       IF ~ Validation(agent_data)
       THEN /\ resp' = Response("register", 400, 0, "-")
            /\ UNCHANGED <<agentRec, agentSet, reqs>>
       ELSE IF ins.ok
       THEN /\ SetStore(ins.st)
            /\ reqs' = reqs \cup {Frame(agent_data, FALSE)}
            /\ UNCHANGED resp
       ELSE IF Stale(RedisClient_get_agent(Store, name), ping_tasks, name)
       THEN LET re == reinitialize(Store, agent_data)
            IN  /\ SetStore(re.st)
                /\ IF re.ok
                   THEN /\ reqs' = reqs \cup {Frame(agent_data, TRUE)}
                        /\ UNCHANGED resp
                   ELSE /\ resp' = Response("register", 409, 0, "-")
                        /\ UNCHANGED reqs
       ELSE /\ resp' = Response("register", 409, 0, "-")
            /\ UNCHANGED <<agentRec, agentSet, reqs>>
    /\ UNCHANGED <<ping_tasks, tasks, restore, flowVars>>

\* verification failure that leaves the inserted record
Faulty_verification_failed(st, name) == st

\* except Exception: self.redis_client.delete_agent(agent_data["agent_name"])
verification_failed(st, name) == RedisClient_delete_agent(st, name).st

\* register_agent from the return of _verify_agent_connection to the response
register_agent_verified(agent_data, reachable) ==
    /\ Frames(agent_data) \cap reqs # {}
    /\ LET name == agent_data.agent_name IN
       IF reachable
       THEN /\ CanSpawn
            /\ LET s == start_agent_ping_loop(ping_tasks, tasks, name) IN
               /\ ping_tasks' = s.pt
               /\ tasks' = s.ts
            /\ resp' = Response("register", 200, 0, "ok")
            /\ UNCHANGED <<agentRec, agentSet>>
       ELSE /\ SetStore(verification_failed(Store, name))
            /\ resp' = Response("register", 400, 0, "failed")
            /\ UNCHANGED <<ping_tasks, tasks>>
    /\ reqs' = reqs \ Frames(agent_data)
    /\ UNCHANGED <<restore, flowVars>>

\* delete_agent that leaves the prober of the agent running
Faulty_delete_agent_keep_prober(agent_name) ==
    IF RedisClient_get_agent(Store, agent_name) = NoRec
    THEN /\ resp' = Response("delete", 404, 0, "-")
         /\ UNCHANGED <<agentRec, agentSet, ping_tasks, tasks>>
    ELSE /\ UNCHANGED <<ping_tasks, tasks>>
         /\ LET del == RedisClient_delete_agent(Store, agent_name) IN
            /\ SetStore(del.st)
            /\ resp' = Response("delete", IF del.ok THEN 200 ELSE 500, 0, "-")

\* delete_agent: the handler of DELETE /platform/agents/{agent_name}
delete_agent(agent_name) ==
    IF RedisClient_get_agent(Store, agent_name) = NoRec
    THEN /\ resp' = Response("delete", 404, 0, "-")
         /\ UNCHANGED <<agentRec, agentSet, ping_tasks, tasks>>
    ELSE /\ IF HasTask(ping_tasks, agent_name)
            THEN /\ tasks' = Cancel(tasks, ping_tasks[agent_name])
                 /\ ping_tasks' = DictDel(ping_tasks, agent_name)
            ELSE UNCHANGED <<ping_tasks, tasks>>
         /\ LET del == RedisClient_delete_agent(Store, agent_name) IN
            /\ SetStore(del.st)
            /\ resp' = Response("delete", IF del.ok THEN 200 ELSE 500, 0, "-")

\* cleanup_all_agents: the handler of DELETE /platform/agents/cleanup
cleanup_all_agents ==
    /\ tasks' = [t \in DOMAIN tasks |->
                   IF \E n \in DOMAIN ping_tasks : ping_tasks[n] = t
                   THEN Cancel(tasks, t)[t] ELSE tasks[t]]
    /\ ping_tasks' = << >>
    /\ LET c == RedisClient_cleanup_all_agents(Store) IN
       /\ SetStore(c.st)
       /\ resp' = Response("cleanup", 200, c.count, "-")

\* the DELETE routes of _setup_routes in the order of their registration;
\* the router dispatches a request to the first route its path matches
DeleteRoutes == <<"{agent_name}", "cleanup">>

RouteMatches(route, segment) == route = "{agent_name}" \/ route = segment

Dispatch(segment) ==
    CHOOSE i \in DOMAIN DeleteRoutes :
        /\ RouteMatches(DeleteRoutes[i], segment)
        /\ \A j \in DOMAIN DeleteRoutes :
              RouteMatches(DeleteRoutes[j], segment) => i <= j

\* a DELETE /platform/agents/<segment> request
DeleteRequest(segment) ==
    /\ ~ Restoring
    /\ IF DeleteRoutes[Dispatch(segment)] = "{agent_name}"
       THEN delete_agent(segment)
       ELSE cleanup_all_agents
    /\ UNCHANGED <<restore, reqs, flowVars>>

(***************************************************************************)
(* Flow store (RedisClient) and the family of flows of the model.          *)
(*                                                                         *)
(* A JSON object is a set of <<key, value>> pairs, so the empty object {}  *)
(* is the empty set.  An agent's output is opaque to the platform: the     *)
(* output of agent n is the one-key object Out(n).                         *)
(***************************************************************************)
MaxNodes  == 2      \* entries of a flow
MaxEdges  == 2      \* upstream references of a flow, all entries together
MaxAbsent == 1      \* agents of the flow that are not registered
MaxFeeders == 2     \* entries that feed the last entry of a join flow

\* FlowExecutionEngine.retry_count
retry_count == 3

FlowId == "f1"
Orphan == "x"       \* an upstream reference that names no entry of the flow

NodesOf(len) == {AllNames[i] : i \in 1..len}

Ord(n) == IF n = Orphan THEN Len(AllNames) + 1
          ELSE CHOOSE i \in DOMAIN AllNames : AllNames[i] = n

RECURSIVE SetToSeq(_)
SetToSeq(S) ==
    IF S = {} THEN <<>>
    ELSE LET m == CHOOSE x \in S : \A y \in S : Ord(x) <= Ord(y)
         IN  <<m>> \o SetToSeq(S \ {m})

RECURSIVE UpTo(_, _)
\* the subsets of S with at most k elements
UpTo(S, k) ==
    IF k = 0 THEN {{}}
    ELSE LET less == UpTo(S, k - 1) IN less \cup {T \cup {x} : T \in less, x \in S}

\* a flow-agent entry as add_agent_to_flow stores it
Entry(name, ups, required) ==
    [agent_name |-> name, upstream_agents |-> ups, required |-> required]

\* the flows with `len` entries: entry i is named AllNames[i] (the code never
\* orders names, so every flow is one of these up to renaming)
FlowsOfLen(len) ==
    LET edges == UpTo(NodesOf(len) \X (NodesOf(len) \cup {Orphan}), MaxEdges)
    IN  {[i \in 1..len |->
            Entry(AllNames[i],
                  SetToSeq({e[2] : e \in {d \in E : d[1] = AllNames[i]}}),
                  AllNames[i] \in R)] :
         E \in edges, R \in SUBSET NodesOf(len)}

FlowFamily == UNION {FlowsOfLen(len) : len \in 0..MaxNodes}

Names(agents) == {agents[i].agent_name : i \in DOMAIN agents}

Config(agents, name) ==
    agents[CHOOSE i \in DOMAIN agents : agents[i].agent_name = name]

Input  == {<<"in", "input">>}
Out(n) == {<<"out", n>>}
Empty  == {}

\* the value of an object nested one level down in another
Nested(v) == IF v = {} THEN "{}" ELSE (CHOOSE p \in v : TRUE)[2]

NoError == [kind |-> "", names |-> {}]
Error(kind, names) == [kind |-> kind, names |-> names]

\* create_flow_execution: the new record
NewExecution(input_data) ==
    [status |-> "pending", input_data |-> input_data, output_data |-> Empty,
     error |-> NoError, agent_results |-> << >>, history |-> <<"pending">>]

\* get_flow: None when flow:{id} does not exist
RedisClient_get_flow(fl, flow_id) == flow_id \in DOMAIN fl

\* update_flow_execution without the test that the record exists: hset makes
\* the hash anew when it is gone
Faulty_update_flow_execution_upsert(ex, id, updates) ==
    LET old == IF id \in DOMAIN ex THEN ex[id] ELSE NewExecution({})
    IN  DictSet(ex, id, [f \in DOMAIN old |->
                            IF f \in DOMAIN updates THEN updates[f] ELSE old[f]])

\* update_flow_execution: a partial write, nothing when the record is gone.
\* history is the sequence of the values the status field has held.
RedisClient_update_flow_execution(ex, id, updates) ==
    IF id \notin DOMAIN ex THEN ex
    ELSE [ex EXCEPT ![id] =
            [f \in DOMAIN ex[id] |->
                IF f \in DOMAIN updates THEN updates[f]
                ELSE IF f = "history" /\ "status" \in DOMAIN updates
                                     /\ updates.status # ex[id].status
                THEN Append(ex[id].history, updates.status)
                ELSE ex[id][f]]]

\* update_agent_result that writes the one key into the agent_results the
\* execution was created with, dropping what other nodes have written
Faulty_update_agent_result_stale(ex, id, agent_name, result) ==
    IF id \notin DOMAIN ex THEN ex
    ELSE RedisClient_update_flow_execution(ex, id,
            [agent_results |-> DictSet(<< >>, agent_name, result)])

\* update_agent_result: read agent_results, set one key, write it back
RedisClient_update_agent_result(ex, id, agent_name, result) ==
    IF id \notin DOMAIN ex THEN ex
    ELSE RedisClient_update_flow_execution(ex, id,
            [agent_results |-> DictSet(ex[id].agent_results, agent_name, result)])

\* delete_flow: the flow, its agents and every flow:{id}:execution:* record
\* (every execution of the model belongs to the one flow FlowId)
delete_flow ==
    /\ RedisClient_get_flow(flows, FlowId)
    /\ flows' = << >>
    /\ execs' = << >>
    /\ UNCHANGED <<regVars, execList, eng, run>>

(***************************************************************************)
(* Flow execution engine (FlowExecutionEngine).                            *)
(***************************************************************************)
Get(d, k) == IF k \in DOMAIN d THEN d[k] ELSE Empty

\* required_agents = [agent for agent in agents if agent.get("required", True)]
RequiredAgents(agents) == SelectSeq(agents, LAMBDA a : a.required)

\* start_agents = [agent for agent in agents if not agent.get("upstream_agents", [])]
StartAgents(agents) == SelectSeq(agents, LAMBDA a : a.upstream_agents = <<>>)

\* readiness that waits for no upstream at all
Faulty_is_agent_ready(agent_config, completed_agents, agents) == TRUE

\* readiness that waits for every upstream, also one that is no entry
Faulty_is_agent_ready_strict(agent_config, completed_agents, agents) ==
    \A i \in DOMAIN agent_config.upstream_agents :
        agent_config.upstream_agents[i] \in completed_agents

\* _is_agent_ready: every upstream that is an entry of the flow and is
\* required is in completed_agents
is_agent_ready(agent_config, completed_agents, agents) ==
    \A i \in DOMAIN agent_config.upstream_agents :
        LET upstream_name == agent_config.upstream_agents[i] IN
        (upstream_name \in Names(agents) /\ Config(agents, upstream_name).required)
            => upstream_name \in completed_agents

\* _build_agent_input that namespaces the result of a single upstream too
Faulty_build_agent_input(agent_config, agent_results, initial_input) ==
    LET ups == agent_config.upstream_agents IN
    IF ups = <<>> THEN initial_input
    ELSE {<<ups[i], Nested(Get(agent_results, ups[i]))>> : i \in DOMAIN ups}

\* _build_agent_input that leaves out the upstreams whose result is {}
Faulty_build_agent_input_skip(agent_config, agent_results, initial_input) ==
    LET ups == agent_config.upstream_agents IN
    IF ups = <<>> THEN initial_input
    ELSE IF Len(ups) = 1 THEN Get(agent_results, ups[1])
    ELSE {<<ups[i], Nested(Get(agent_results, ups[i]))>> :
            i \in {j \in DOMAIN ups : Get(agent_results, ups[j]) # Empty}}

\* _build_agent_input
build_agent_input(agent_config, agent_results, initial_input) ==
    LET ups == agent_config.upstream_agents IN
    IF ups = <<>> THEN initial_input
    ELSE IF Len(ups) = 1 THEN Get(agent_results, ups[1])
    ELSE {<<ups[i], Nested(Get(agent_results, ups[i]))>> : i \in DOMAIN ups}

\* final_agents: the entries no entry lists as upstream
FinalAgents(agents) ==
    SelectSeq(agents, LAMBDA a :
        \A j \in DOMAIN agents :
            \A k \in DOMAIN agents[j].upstream_agents :
                agents[j].upstream_agents[k] # a.agent_name)

\* a final output that is namespaced also for a single final agent
Faulty_final_output(agents, agent_results) ==
    LET final == FinalAgents(agents) IN
    {<<final[i].agent_name, Nested(Get(agent_results, final[i].agent_name))>> :
        i \in DOMAIN final}

\* the output built from the final agents
FinalOutput(agents, agent_results) ==
    LET final == FinalAgents(agents) IN
    IF Len(final) = 1 THEN Get(agent_results, final[1].agent_name)
    ELSE {<<final[i].agent_name, Nested(Get(agent_results, final[i].agent_name))>> :
            i \in DOMAIN final}

NoRun == [st |-> "none", attempt |-> 0, calls |-> 0, input |-> Empty,
          result |-> Empty, launches |-> 0]

\* the coroutine object _execute_agent_with_retry(..., agent_config, input)
Launch(old, input) ==
    [st |-> "running", attempt |-> 0, calls |-> 0, input |-> input,
     result |-> Empty, launches |-> old.launches + 1]

Settled(r) == r.st \in {"ok", "failed"}

\* the masking of an optional failure dropped: every failure raises
Faulty_raises(agent_config) == TRUE

\* a failure of a required entry masked like that of an optional one
Faulty_never_raises(agent_config) == FALSE

\* if agent_config.get("required", True): raise RuntimeError(...)
Raises(agent_config) == agent_config.required

RECURSIVE ProcessResults(_, _, _, _, _)
\* "for i, result in enumerate(results)" after a gather: the first failure
\* of a required entry raises; a failed optional entry yields {}
ProcessResults(agents, wave, i, completed_agents, agent_results) ==
    IF i > Len(wave)
    THEN [raised |-> FALSE, node |-> "-", completed_agents |-> completed_agents,
          agent_results |-> agent_results]
    ELSE LET agent_name == wave[i]
             failed == run[agent_name].st = "failed"
         IN
         IF failed /\ Raises(Config(agents, agent_name))
         THEN [raised |-> TRUE, node |-> agent_name,
               completed_agents |-> completed_agents,
               agent_results |-> agent_results]
         ELSE ProcessResults(agents, wave, i + 1,
                  completed_agents \cup {agent_name},
                  DictSet(agent_results, agent_name,
                          IF failed THEN Empty ELSE run[agent_name].result))

\* ready_agents without the skip of the entries that are completed
Faulty_ready_agents_again(agents, completed_agents) ==
    SelectSeq(agents, LAMBDA a : is_agent_ready(a, completed_agents, agents))

\* ready_agents of one iteration of the scheduling loop
ReadyAgents(agents, completed_agents) ==
    SelectSeq(agents, LAMBDA a :
        /\ a.agent_name \notin completed_agents
        /\ is_agent_ready(a, completed_agents, agents))

\* remaining_agents without the test against completed_agents
Faulty_remaining_all(agents, completed_agents) == Names(agents)

\* remaining_agents
RemainingAgents(agents, completed_agents) ==
    {n \in Names(agents) : n \notin completed_agents}

WaveNames(configs) == [i \in DOMAIN configs |-> configs[i].agent_name]

IdleEngine ==
    [pc |-> "idle", execution_id |-> 0, agents |-> <<>>, input_data |-> Empty,
     hc |-> 0, probed |-> {}, unresponsive |-> {}, completed_agents |-> {}, agent_results |-> << >>,
     wave |-> <<>>, waves |-> 0, outcome |-> "none", error |-> NoError]

\* an except clause that also stores what the final agents have produced
Faulty_raise_with_output(e, ex, err) ==
    /\ execs' = RedisClient_update_flow_execution(ex, e.execution_id,
                    [status |-> "failed", error |-> err,
                     output_data |-> {<<e.agents[i].agent_name,
                                        Nested(Get(e.agent_results, e.agents[i].agent_name))>> :
                                          i \in DOMAIN e.agents}])
    /\ eng' = [e EXCEPT !.pc = "done", !.outcome = "RuntimeError", !.error = err]
    /\ UNCHANGED run

\* the except clause of execute_flow: status failed with str(e); the
\* RuntimeError reaches the caller.  e is the engine at the raise.
Raise(e, ex, err) ==
    /\ execs' = RedisClient_update_flow_execution(ex, e.execution_id,
                    [status |-> "failed", error |-> err])
    /\ eng' = [e EXCEPT !.pc = "done", !.outcome = "RuntimeError", !.error = err]
    /\ UNCHANGED run

\* a gather of one coroutine per entry of `configs`
Gather(e, ex, configs) ==
    /\ execs' = ex
    /\ eng' = [e EXCEPT !.pc = "wave", !.wave = WaveNames(configs),
                        !.waves = e.waves + 1]
    /\ run' = [n \in DOMAIN run |->
                 IF \E i \in DOMAIN configs : configs[i].agent_name = n
                 THEN Launch(run[n],
                             build_agent_input(Config(e.agents, n), e.agent_results,
                                               e.input_data))
                 ELSE run[n]]

\* step 3 of execute_flow: status completed with the output
Complete(e, ex) ==
    LET result == FinalOutput(e.agents, e.agent_results) IN
    /\ execs' = RedisClient_update_flow_execution(ex, e.execution_id,
                    [status |-> "completed", output_data |-> result])
    /\ eng' = [e EXCEPT !.pc = "done", !.outcome = "returned"]
    /\ UNCHANGED run

\* a start phase without the check for an empty start set
Faulty_start_phase_no_check(e, ex) == Gather(e, ex, StartAgents(e.agents))

\* _execute_flow_with_dependencies up to the first gather
StartPhase(e, ex) ==
    LET start_agents == StartAgents(e.agents) IN
    IF start_agents = <<>>
    THEN Raise(e, ex, Error("NoStartAgents", {}))
    ELSE Gather(e, ex, start_agents)

\* a scheduling loop that goes round again when no entry is ready
Faulty_scheduling_loop_spin(e, ex) ==
    IF Cardinality(e.completed_agents) < Len(e.agents)
    THEN LET ready_agents == ReadyAgents(e.agents, e.completed_agents) IN
         IF ready_agents = <<>>
         THEN /\ execs' = ex
              /\ eng' = e
              /\ UNCHANGED run
         ELSE Gather(e, ex, ready_agents)
    ELSE Complete(e, ex)

\* the scheduling loop from its head to the next gather, or to the end
SchedulingLoop(e, ex) ==
    IF Cardinality(e.completed_agents) < Len(e.agents)
    THEN LET ready_agents == ReadyAgents(e.agents, e.completed_agents) IN
         IF ready_agents = <<>>
         THEN Raise(e, ex, Error("CircularOrMissingDependency",
                                 RemainingAgents(e.agents, e.completed_agents)))
         ELSE Gather(e, ex, ready_agents)
    ELSE Complete(e, ex)

\* the length flow:{id}:executions is trimmed to
ExecListMax == 100

\* an execution id is the ordinal of the creation of the execution (uuid4
\* never repeats an id); the head of the list is the last one created
NextExecutionId(list) == IF list = <<>> THEN 1 ELSE Head(list) + 1

\* create_flow_execution with lpush and no ltrim
Faulty_push_no_trim(list, execution_id) == <<execution_id>> \o list

\* create_flow_execution: lpush flow:{id}:executions, ltrim 0 99
PushExecution(list, execution_id) ==
    SubSeq(<<execution_id>> \o list, 1,
           IF Len(list) + 1 > ExecListMax THEN ExecListMax ELSE Len(list) + 1)

\* execute_flow up to the creation of the execution record
execute_flow ==
    /\ eng.pc = "idle"
    /\ IF ~ RedisClient_get_flow(flows, FlowId) \/ flows[FlowId].agents = <<>>
       THEN /\ eng' = [eng EXCEPT !.pc = "done", !.outcome = "ValueError"]
            /\ UNCHANGED <<execs, execList>>
       ELSE LET id == NextExecutionId(execList) IN
            /\ execs' = DictSet(execs, id, NewExecution(Input))
            /\ execList' = PushExecution(execList, id)
            /\ eng' = [eng EXCEPT !.pc = "created", !.execution_id = id,
                                  !.agents = flows[FlowId].agents,
                                  !.input_data = Input]
    /\ UNCHANGED <<regVars, flows, run>>

\* the first write of execute_flow that leaves the status pending
Faulty_running == [error |-> NoError]

\* update_flow_execution(status="running", ...)
Running == [status |-> "running"]

\* execute_flow from the status update to the first await
flow_running ==
    /\ eng.pc = "created"
    /\ LET ex == RedisClient_update_flow_execution(execs, eng.execution_id, Running)
       IN  IF RequiredAgents(eng.agents) = <<>>
           THEN StartPhase(eng, ex)
           ELSE /\ execs' = ex
                /\ eng' = [eng EXCEPT !.pc = "health", !.hc = 1]
                /\ UNCHANGED run
    /\ UNCHANGED <<regVars, flows, execList>>

\* a health check that accepts an agent that does not respond
Faulty_healthy(registered, responding) == registered

\* _check_flow_health: the agent is in the registry and _ping_agent is true
Healthy(registered, responding) == registered /\ responding

\* _check_flow_health: one iteration over required_agents; _ping_agent of
\* the entry returned `responding`
check_flow_health(responding) ==
    /\ eng.pc = "health"
    /\ LET agent_name == RequiredAgents(eng.agents)[eng.hc].agent_name
           registered == RedisClient_get_agent(Store, agent_name) # NoRec
           e == [eng EXCEPT
                    !.probed = IF registered THEN eng.probed \cup {agent_name}
                               ELSE eng.probed,
                    !.unresponsive = IF registered /\ ~ responding
                                     THEN eng.unresponsive \cup {agent_name}
                                     ELSE eng.unresponsive]
       IN  IF ~ Healthy(registered, responding)
           THEN Raise(e, execs, Error("FlowNotReady", {agent_name}))
           ELSE IF eng.hc = Len(RequiredAgents(eng.agents))
           THEN StartPhase(e, execs)
           ELSE /\ eng' = [e EXCEPT !.hc = eng.hc + 1]
                /\ UNCHANGED <<execs, run>>
    /\ UNCHANGED <<regVars, flows, execList>>

\* a retry loop that gives up after the first failure
Faulty_last_attempt(attempt) == TRUE

\* the else of "if attempt < self.retry_count - 1"
LastAttempt(attempt) == ~ (attempt < retry_count - 1)

\* one pass of the for loop of _execute_agent_with_retry: _execute_single_agent
\* raised without a call when the agent is not in the registry, and otherwise
\* called the agent, which answered (success) or failed
execute_agent_attempt(agent_name, success) ==
    /\ eng.pc = "wave"
    /\ agent_name \in DOMAIN run
    /\ run[agent_name].st = "running"
    /\ LET r == run[agent_name]
           registered == RedisClient_get_agent(Store, agent_name) # NoRec
           calls == IF registered THEN r.calls + 1 ELSE r.calls
       IN  IF registered /\ success
           THEN /\ execs' = RedisClient_update_agent_result(execs, eng.execution_id,
                               agent_name,
                               [status |-> "completed", output |-> Out(agent_name),
                                attempts |-> r.attempt + 1])
                /\ run' = [run EXCEPT ![agent_name] =
                             [r EXCEPT !.st = "ok", !.attempt = r.attempt + 1,
                                       !.calls = calls, !.result = Out(agent_name)]]
           ELSE IF LastAttempt(r.attempt)
           THEN /\ execs' = RedisClient_update_agent_result(execs, eng.execution_id,
                               agent_name,
                               [status |-> "failed", output |-> Empty,
                                attempts |-> retry_count])
                /\ run' = [run EXCEPT ![agent_name] =
                             [r EXCEPT !.st = "failed", !.attempt = r.attempt + 1,
                                       !.calls = calls]]
           ELSE /\ run' = [run EXCEPT ![agent_name] =
                             [r EXCEPT !.attempt = r.attempt + 1, !.calls = calls]]
                /\ UNCHANGED execs
    /\ UNCHANGED <<regVars, flows, execList, eng>>

\* a wait that returns when the first coroutine of the wave has ended
Faulty_gathered_first(wave) == \E i \in DOMAIN wave : Settled(run[wave[i]])

\* await asyncio.gather(*tasks, return_exceptions=True) returns: every
\* coroutine of the wave has returned or raised
Gathered(wave) == \A i \in DOMAIN wave : Settled(run[wave[i]])

\* the gather of the wave returned: its results are processed in the order
\* of the wave, then the scheduling loop runs to its next await
gather_returns ==
    /\ eng.pc = "wave"
    /\ Gathered(eng.wave)
    /\ LET p == ProcessResults(eng.agents, eng.wave, 1, eng.completed_agents,
                               eng.agent_results)
           e == [eng EXCEPT !.completed_agents = p.completed_agents,
                            !.agent_results = p.agent_results]
       IN  IF p.raised
           THEN Raise(e, execs, Error("RequiredAgentFailed", {p.node}))
           ELSE SchedulingLoop(e, execs)
    /\ UNCHANGED <<regVars, flows, execList>>

(***************************************************************************)
(* Specifications.                                                         *)
(***************************************************************************)
ActiveRec == [status |-> "active", capabilities |-> <<"cap">>, data |-> 1,
              registered_at |-> AtRegister, last_verified |-> AtRegister]

\* a record that update_agent_status has marked inactive
InactiveRec == [ActiveRec EXCEPT !.status = "inactive", !.last_verified = AtUpdate]

NoResponse == Response("none", 0, 0, "-")

\* the registry a platform process finds when it starts: the set and the
\* hashes agree, records are active or inactive
InitRegistry ==
    /\ agentSet \in SUBSET AgentNames
    /\ agentRec \in [AgentNames -> {NoRec, ActiveRec, InactiveRec}]
    /\ \A n \in AgentNames : n \in agentSet <=> agentRec[n] # NoRec
    /\ ping_tasks = << >>
    /\ tasks = <<>>
    /\ restore = [pc |-> "list", todo |-> {}, found |-> {}]
    /\ reqs = {}
    /\ resp = NoResponse

NoFlows ==
    /\ flows = << >>
    /\ execs = << >>
    /\ execList = <<>>
    /\ eng = IdleEngine
    /\ run = << >>

Init == InitRegistry /\ NoFlows

Next ==
    \/ RestoreList
    \/ \E n \in AgentNames, reachable \in BOOLEAN : RestoreAgent(n, reachable)
    \/ \E d \in Payloads : register_agent(d)
    \/ \E d \in WellFormed, reachable \in BOOLEAN : register_agent_verified(d, reachable)
    \/ \E segment \in Segments : DeleteRequest(segment)
    \/ \E t \in TaskIds, success \in BOOLEAN : ping_agent_loop(t, success)

Spec == Init /\ [][Next]_vars

\* the startup of a platform process over a registry of up to MaxRestored
\* agents: restoration and the probers it has started, no request served
RestoredNames == {AllNames[i] : i \in 1..MaxRestored}

InitStartup ==
    /\ agentSet \in SUBSET RestoredNames
    /\ agentRec \in [RestoredNames -> {NoRec, ActiveRec, InactiveRec}]
    /\ \A n \in RestoredNames : n \in agentSet <=> agentRec[n] # NoRec
    /\ ping_tasks = << >>
    /\ tasks = <<>>
    /\ restore = [pc |-> "list", todo |-> {}, found |-> {}]
    /\ reqs = {}
    /\ resp = NoResponse
    /\ NoFlows

NextStartup ==
    \/ RestoreList
    \/ \E n \in RestoredNames, reachable \in BOOLEAN : RestoreAgent(n, reachable)
    \/ \E t \in TaskIds, success \in BOOLEAN : ping_agent_loop(t, success)

SpecStartup == InitStartup /\ [][NextStartup]_vars

\* one flow of the family (or none), a registry that lacks at most MaxAbsent
\* of its agents, a platform that has finished its startup
InitFlow ==
    /\ \E agents \in FlowFamily, absent \in UpTo(NodesOf(MaxNodes), MaxAbsent) :
         /\ absent \subseteq Names(agents)
         /\ flows \in {<< >>, [f \in {FlowId} |-> [name |-> "flow", agents |-> agents]]}
         /\ flows = << >> => agents = <<>>
         /\ agentSet = NodesOf(MaxNodes) \ absent
         /\ agentRec = [n \in NodesOf(MaxNodes) |->
                          IF n \in absent THEN NoRec ELSE ActiveRec]
         /\ run = [n \in Names(agents) |-> NoRun]
    /\ ping_tasks = << >>
    /\ tasks = <<>>
    /\ restore = [pc |-> "done", todo |-> {}, found |-> {}]
    /\ reqs = {}
    /\ resp = NoResponse
    /\ execs = << >>
    /\ execList = <<>>
    /\ eng = IdleEngine

EngineNext ==
    \/ execute_flow
    \/ flow_running
    \/ \E responding \in BOOLEAN : check_flow_health(responding)
    \/ \E n \in NodesOf(MaxNodes), success \in BOOLEAN : execute_agent_attempt(n, success)
    \/ gather_returns

NextFlow == EngineNext \/ delete_flow

SpecFlow == InitFlow /\ [][NextFlow]_vars

\* every await of the engine returns or raises, and the event loop resumes
\* the coroutine
SpecFlowLive == SpecFlow /\ WF_vars(EngineNext)

\* The join flows: MaxFeeders feeder entries and a last entry that lists any
\* of them, and possibly an orphan, as its upstreams.  The first feeder is a
\* start entry; each other feeder is a start entry or has the first feeder
\* as its upstream.  Every entry is required or optional.
JoinNames == NodesOf(MaxFeeders + 1)

JoinFlows ==
    LET feeders == NodesOf(MaxFeeders)
        join    == AllNames[MaxFeeders + 1]
    IN  {[i \in 1..(MaxFeeders + 1) |->
            Entry(AllNames[i],
                  IF AllNames[i] = join THEN SetToSeq(U)
                  ELSE IF AllNames[i] \in C THEN <<AllNames[1]>> ELSE <<>>,
                  AllNames[i] \in R)] :
         U \in SUBSET (feeders \cup {Orphan}),
         C \in SUBSET (feeders \ {AllNames[1]}),
         R \in SUBSET JoinNames}

\* one join flow, every agent of it registered, the platform started
InitJoin ==
    /\ \E agents \in JoinFlows :
         /\ flows = [f \in {FlowId} |-> [name |-> "flow", agents |-> agents]]
         /\ run = [n \in Names(agents) |-> NoRun]
    /\ agentSet = JoinNames
    /\ agentRec = [n \in JoinNames |-> ActiveRec]
    /\ ping_tasks = << >>
    /\ tasks = <<>>
    /\ restore = [pc |-> "done", todo |-> {}, found |-> {}]
    /\ reqs = {}
    /\ resp = NoResponse
    /\ execs = << >>
    /\ execList = <<>>
    /\ eng = IdleEngine

NextJoin ==
    \/ execute_flow
    \/ flow_running
    \/ \E responding \in BOOLEAN : check_flow_health(responding)
    \/ \E n \in JoinNames, success \in BOOLEAN : execute_agent_attempt(n, success)
    \/ gather_returns

SpecJoin == InitJoin /\ [][NextJoin]_vars

(***************************************************************************)
(* Properties of the registry and the supervisor (specification Spec).     *)
(***************************************************************************)
Registered(n) == agentRec[n] # NoRec

\* C1: the step of a prober in which its consecutive failures reach
\* max_failures removes the agent's record and its name-set entry, removes
\* the entry of the prober table and ends the loop; a task that has left its
\* loop takes no further step.
C1_EvictionAfterMaxFailures ==
    [][\A t \in DOMAIN tasks :
          /\ (tasks[t].fails < max_failures /\ tasks'[t].fails >= max_failures)
                => /\ agentRec'[tasks[t].name] = NoRec
                   /\ tasks[t].name \notin agentSet'
                   /\ ~ HasTask(ping_tasks', tasks[t].name)
                   /\ tasks'[t].st = "done"
          /\ (tasks[t].st = "done" => tasks'[t] = tasks[t])
          /\ tasks'[t].fails <= max_failures]_vars

C1_Witness ==
    \E t \in DOMAIN tasks :
        /\ tasks[t].st = "done" /\ tasks[t].fails = max_failures
        /\ ~ Registered(tasks[t].name) /\ ~ HasTask(ping_tasks, tasks[t].name)

Consistent(st) == \A n \in DOMAIN st.rec : n \in st.set <=> st.rec[n] # NoRec

\* C2: in every reachable state a name is in the set "agents" iff the hash
\* agent:{name} exists, and the store's cleanup, a status update or a delete
\* applied in that state keeps it so.
C2_SetMatchesRecords ==
    /\ Consistent(Store)
    /\ Consistent(RedisClient_cleanup_all_agents(Store).st)
    /\ \A n \in AgentNames :
          /\ Consistent(RedisClient_update_agent_status(Store, n, "active").st)
          /\ Consistent(RedisClient_delete_agent(Store, n).st)

C2_Witness ==
    /\ resp.op = "delete" /\ resp.code = 200
    /\ \E t \in DOMAIN tasks : tasks[t].st = "done"
    /\ \E t \in DOMAIN tasks : tasks[t].st = "cancelled"
    /\ \E n \in AgentNames : ~ Registered(n) /\ n \notin agentSet

\* C3 as stated: every agent in the registry has a prober, or restoration
\* has not finished, or its status is inactive.
C3_Original ==
    \A n \in AgentNames :
        Registered(n) =>
            \/ HasTask(ping_tasks, n)
            \/ Restoring
            \/ agentRec[n].status = "inactive"

\* C3 amended: ... or a registration request for the agent is suspended in
\* its verification probe.
C3_ProberOrWindow ==
    \A n \in AgentNames :
        Registered(n) =>
            \/ HasTask(ping_tasks, n)
            \/ Restoring
            \/ agentRec[n].status = "inactive"
            \/ Verifying(n) # {}

C3_Witness ==
    \E n \in AgentNames :
        /\ Registered(n) /\ agentRec[n].status = "active"
        /\ ~ HasTask(ping_tasks, n) /\ ~ Restoring
        /\ Verifying(n) # {}

\* C10: the step in which a registration request returns after its
\* verification probe failed leaves the agent absent from the registry,
\* spawns no prober and answers 400.
C10_VerificationFailure ==
    [][\A d \in reqs :
          (d \notin reqs' /\ resp'.probe = "failed")
             => /\ agentRec'[d.agent_name] = NoRec
                /\ d.agent_name \notin agentSet'
                /\ tasks' = tasks
                /\ ping_tasks' = ping_tasks
                /\ resp'.op = "register" /\ resp'.code = 400]_vars

C10_Witness ==
    /\ resp.op = "register" /\ resp.code = 400 /\ resp.probe = "failed"
    /\ reqs = {}
    /\ \E n \in AgentNames : ~ Registered(n) /\ ~ HasTask(ping_tasks, n)

(***************************************************************************)
(* Properties of the flow execution engine (specifications SpecFlow and    *)
(* SpecFlowLive).                                                          *)
(***************************************************************************)
Created == eng.execution_id # 0

Done == eng.pc = "done"

RecordExists == eng.execution_id \in DOMAIN execs

Record == execs[eng.execution_id]

FlowNames == Names(eng.agents)

RequiredNames == {n \in FlowNames : Config(eng.agents, n).required}

OptionalNames == FlowNames \ RequiredNames

StartNames == {n \in FlowNames : Config(eng.agents, n).upstream_agents = <<>>}

\* the upstreams of n that are entries of the flow
UpstreamsIn(agents, n) ==
    {Config(agents, n).upstream_agents[i] :
        i \in DOMAIN Config(agents, n).upstream_agents} \cap Names(agents)

RECURSIVE Peel(_, _)
\* what is left of S after removing, again and again, the entries none of
\* whose upstreams is still in S
Peel(agents, S) ==
    LET free == {n \in S : UpstreamsIn(agents, n) \cap S = {}} IN
    IF free = {} THEN S ELSE Peel(agents, S \ free)

\* the graph u -> v iff u in v.upstream_agents has no cycle
Acyclic(agents) == Peel(agents, Names(agents)) = {}

FailedNames == {n \in FlowNames : run[n].st = "failed"}

\* the agents of the flow's required entries are registered, answered the
\* readiness probe, and none of them failed all its attempts
RequiredAgentsWell ==
    /\ \A n \in RequiredNames : Registered(n)
    /\ eng.unresponsive = {}
    /\ FailedNames \cap RequiredNames = {}

EndsCompleted ==
    /\ eng.outcome = "returned"
    /\ RecordExists => Record.status = "completed"

\* C4 as stated: an execution of an acyclic flow whose required agents are
\* registered, answer the readiness probe and succeed ends completed.
C4_Original ==
    (Done /\ Created /\ Acyclic(eng.agents) /\ RequiredAgentsWell) => EndsCompleted

\* C4 amended: an execution of an acyclic flow that has an entry without
\* upstreams, and whose required agents are registered, answer the readiness
\* probe and succeed, terminates, and it ends completed: the call returns
\* and the record, unless the flow was deleted meanwhile, has status
\* completed, never failed, never running.
C4_AcyclicFlowCompletes ==
    /\ [](( Done /\ Created /\ Acyclic(eng.agents) /\ StartNames # {}
              /\ RequiredAgentsWell) => EndsCompleted)
    /\ (Created ~> Done)

C4_Witness ==
    /\ Done /\ Created /\ Acyclic(eng.agents) /\ RequiredAgentsWell
    /\ EndsCompleted /\ RecordExists
    /\ Len(eng.agents) = MaxNodes /\ eng.waves >= 2
    /\ RequiredNames # {}

\* the required entries of the running wave that failed all their attempts,
\* and the first of them in the order of the wave
FailedRequiredOfWave ==
    {i \in DOMAIN eng.wave :
        eng.wave[i] \in RequiredNames /\ run[eng.wave[i]].st = "failed"}

FirstFailedRequired ==
    eng.wave[CHOOSE i \in FailedRequiredOfWave : \A j \in FailedRequiredOfWave : i <= j]

NeverCompleted ==
    /\ eng.outcome # "returned"
    /\ RecordExists => Record.status # "completed"

EndsFailedNaming(names) ==
    /\ eng.outcome = "RuntimeError"
    /\ eng.error.kind = "RequiredAgentFailed"
    /\ names \subseteq eng.error.names
    /\ RecordExists => (Record.status = "failed" /\ Record.error = eng.error)

\* C5 as stated: when a required node failed all its attempts the execution
\* ends failed with an error that names that node.
C5_Original ==
    \A n \in FailedNames \cap RequiredNames :
        /\ NeverCompleted
        /\ Done => EndsFailedNaming({n})

\* C5 amended: when required nodes failed all their attempts the execution
\* never ends completed; it ends failed with an error that names exactly one
\* node, the first entry of the wave, in the order of the flow, that is
\* required and failed.
C5_RequiredFailureNotMasked ==
    (FailedNames \cap RequiredNames # {}) =>
        /\ NeverCompleted
        /\ Done => /\ EndsFailedNaming({FirstFailedRequired})
                   /\ eng.error.names = {FirstFailedRequired}

C5_Witness ==
    /\ Done /\ Created /\ RecordExists
    /\ Cardinality(FailedNames \cap RequiredNames) = 2
    /\ EndsFailedNaming({FirstFailedRequired})
    /\ \E n \in FailedNames \cap RequiredNames : n \notin eng.error.names

\* the step in which the gather of a wave returns
GatherReturns == eng.pc = "wave" /\ eng' # eng

\* the failure of the optional entry n is masked in this step
Masked(n) ==
    /\ n \in eng'.completed_agents
    /\ n \in DOMAIN eng'.agent_results
    /\ eng'.agent_results[n] = Empty
    /\ eng'.error.kind # "RequiredAgentFailed"

\* C6 as stated: whenever an optional node failed all its attempts, its
\* result is recorded as {}, it is marked completed and scheduling continues.
C6_Original ==
    [][GatherReturns =>
          \A i \in DOMAIN eng.wave :
              (eng.wave[i] \in OptionalNames /\ run[eng.wave[i]].st = "failed")
                 => Masked(eng.wave[i])]_vars

\* C6 amended: when an optional node (start node or downstream node) failed
\* all its attempts and no required node of the same wave failed all of its
\* own, the node's result is recorded as {}, the node is marked completed and
\* scheduling goes on; and an execution fails for a failed agent only with an
\* error that names a required node that failed.
C6_OptionalFailureMasked ==
    /\ [][GatherReturns =>
            \A i \in DOMAIN eng.wave :
                ( /\ eng.wave[i] \in OptionalNames
                  /\ run[eng.wave[i]].st = "failed"
                  /\ FailedRequiredOfWave = {} )
                   => Masked(eng.wave[i])]_vars
    /\ [](eng.error.kind = "RequiredAgentFailed"
             => /\ eng.error.names # {}
                /\ eng.error.names \subseteq FailedNames \cap RequiredNames)
    /\ []((Done /\ eng.outcome = "RuntimeError")
             => eng.error.kind \in {"FlowNotReady", "NoStartAgents",
                                    "CircularOrMissingDependency",
                                    "RequiredAgentFailed"})

C6_Witness ==
    /\ Done /\ EndsCompleted /\ RecordExists
    /\ \E n \in OptionalNames \cap StartNames :
          /\ run[n].st = "failed" /\ run[n].attempt = retry_count
          /\ n \in eng.completed_agents /\ eng.agent_results[n] = Empty
    /\ \E n \in OptionalNames \ StartNames :
          /\ run[n].st = "failed"
          /\ n \in eng.completed_agents /\ eng.agent_results[n] = Empty

Invoked(n) == run[n].st # "none"

\* C7: a node is invoked only when every required upstream of it that is an
\* entry of the flow has completed (it is in completed_agents and did not
\* fail), it is invoked once, and when a node that is not a start node is
\* invoked every start node has settled.
C7_UpstreamsFirst ==
    \A n \in FlowNames :
        Invoked(n) =>
            /\ \A u \in UpstreamsIn(eng.agents, n) \cap RequiredNames :
                  /\ u \in eng.completed_agents
                  /\ run[u].st = "ok"
            /\ n \notin StartNames => \A s \in StartNames : Settled(run[s])
            /\ run[n].launches = 1

C7_Witness ==
    /\ Len(eng.agents) = MaxNodes
    /\ \E n \in FlowNames :
          /\ run[n].st = "running"
          /\ Cardinality(UpstreamsIn(eng.agents, n) \cap RequiredNames) = 1
          /\ n \notin UpstreamsIn(eng.agents, n)
    /\ eng.waves = 2

\* C8: an execution of a flow that has a required node whose agent is absent
\* from the registry or did not answer the readiness probe ends failed with
\* a FlowNotReady error, and no agent of the flow is ever invoked in it; the
\* readiness check probes agents of required nodes only.
C8_NotReadyAborts ==
    /\ eng.probed \subseteq RequiredNames
    /\ ((\E n \in RequiredNames : ~ Registered(n) \/ n \in eng.unresponsive) =>
           /\ \A n \in FlowNames : ~ Invoked(n)
           /\ eng.pc \in {"idle", "created", "health", "done"}
           /\ (Done /\ Created) =>
                 /\ eng.outcome = "RuntimeError"
                 /\ eng.error.kind = "FlowNotReady"
                 /\ RecordExists => /\ Record.status = "failed"
                                    /\ Record.error.kind = "FlowNotReady")

C8_Witness ==
    /\ Done /\ Created /\ RecordExists
    /\ Record.status = "failed" /\ Record.error.kind = "FlowNotReady"
    /\ eng.unresponsive # {} /\ eng.probed = RequiredNames
    /\ \E n \in OptionalNames : n \in StartNames
    /\ \A n \in FlowNames : ~ Invoked(n)

\* C9: the values the status of an execution record has held form a prefix
\* of pending, running, completed or of pending, running, failed.
C9_StatusProgression ==
    \A id \in DOMAIN execs :
        /\ execs[id].history \in
              {<<"pending">>, <<"pending", "running">>,
               <<"pending", "running", "completed">>,
               <<"pending", "running", "failed">>}
        /\ execs[id].status = execs[id].history[Len(execs[id].history)]

C9_Witness ==
    /\ Done /\ RecordExists
    /\ Record.history = <<"pending", "running", "failed">>
    /\ eng.error.kind = "RequiredAgentFailed"

(***************************************************************************)
(* Further properties of the registry and the supervisor.                  *)
(***************************************************************************)
\* C11: RedisClient.register_agent applied to the store of any reachable
\* state: for a name that has no record it returns true, stores the record
\* with the request's data, status active, registered_at and last_verified,
\* adds the name to the set and touches no other record; for a name that has
\* a record, active or inactive, it returns false and leaves the store as it
\* is.
C11_InsertIfAbsent ==
    \A d \in WellFormed :
        LET name == d.agent_name
            r    == RedisClient_register_agent(Store, d)
        IN  IF agentRec[name] = NoRec
            THEN /\ r.ok
                 /\ r.st.rec[name].status = "active"
                 /\ r.st.rec[name].registered_at # ""
                 /\ r.st.rec[name].last_verified # ""
                 /\ r.st.rec[name].capabilities = d.capabilities
                 /\ r.st.rec[name].data = d.data
                 /\ r.st.set = agentSet \cup {name}
                 /\ \A n \in AgentNames \ {name} : r.st.rec[n] = agentRec[n]
            ELSE /\ ~ r.ok
                 /\ r.st = Store

C11_Witness ==
    /\ resp.op = "register" /\ resp.code = 409
    /\ \E n \in AgentNames : agentRec[n].status = "inactive" /\ n \in agentSet

\* C12: a registration request that names an agent which is in the registry
\* and has a prober is answered with 409, and the step leaves the records,
\* the name set, the prober table and the prober tasks unchanged.
C12_ExistingRejected ==
    [][\A d \in WellFormed :
         (/\ agentRec[d.agent_name] # NoRec
          /\ HasTask(ping_tasks, d.agent_name)
          /\ register_agent(d))
         => /\ resp'.op = "register" /\ resp'.code = 409
            /\ UNCHANGED <<agentRec, agentSet, ping_tasks, tasks, reqs>>]_vars

C12_Witness ==
    /\ resp.op = "register" /\ resp.code = 409
    /\ \E n \in AgentNames :
         /\ agentRec[n].status = "active"
         /\ HasTask(ping_tasks, n)
         /\ tasks[ping_tasks[n]].st = "live"

\* the record register_agent stores for a request body
NewRecord(d) ==
    [status |-> "active", capabilities |-> d.capabilities, data |-> d.data,
     registered_at |-> AtRegister, last_verified |-> AtRegister]

\* C13 as stated: the step in which a request that came through the
\* re-registration branch returns leaves the new record in the registry and
\* a prober for the name.
C13_Original ==
    [][\A f \in reqs :
          (f.stale /\ f \notin reqs')
             => /\ agentRec'[f.agent_name].status = "active"
                /\ agentRec'[f.agent_name].data = f.data
                /\ agentRec'[f.agent_name].capabilities = f.capabilities
                /\ HasTask(ping_tasks', f.agent_name)]_vars

\* C13 amended: a registration request for a name that has a record and no
\* prober replaces the record by the record of the new data in the step
\* that suspends the handler in its verification, without a response and
\* without a prober yet; the step in which that handler returns after a
\* successful probe leaves a live prober for the name and answers 200; the
\* step in which it returns after a failed probe leaves the name absent
\* from the registry, spawns no prober and answers 400.
C13_StaleReRegistered ==
    [][/\ \A d \in WellFormed :
            (/\ agentRec[d.agent_name] # NoRec
             /\ ~ HasTask(ping_tasks, d.agent_name)
             /\ register_agent(d))
            => /\ Frame(d, TRUE) \in reqs'
               /\ agentRec'[d.agent_name] = NewRecord(d)
               /\ d.agent_name \in agentSet'
               /\ UNCHANGED <<ping_tasks, tasks, resp>>
       /\ \A f \in reqs :
            (f.stale /\ f \notin reqs')
            => IF resp'.probe = "ok"
               THEN /\ HasTask(ping_tasks', f.agent_name)
                    /\ tasks'[ping_tasks'[f.agent_name]].st = "live"
                    /\ resp'.op = "register" /\ resp'.code = 200
               ELSE /\ agentRec'[f.agent_name] = NoRec
                    /\ f.agent_name \notin agentSet'
                    /\ UNCHANGED <<ping_tasks, tasks>>
                    /\ resp'.op = "register" /\ resp'.code = 400]_vars

C13_Witness ==
    \E f \in reqs :
        /\ f.stale
        /\ f.data = 2
        /\ agentRec[f.agent_name] = [status |-> "active",
                                     capabilities |-> f.capabilities,
                                     data |-> 2,
                                     registered_at |-> AtRegister,
                                     last_verified |-> AtRegister]
        /\ ~ HasTask(ping_tasks, f.agent_name)

\* the names whose verification by restoration has succeeded: no other
\* code spawns a prober while the platform starts
VerifiedNames(ts) == {ts[t].name : t \in DOMAIN ts}

\* the names a prober has evicted
EvictedNames(ts) ==
    {ts[t].name : t \in {u \in DOMAIN ts : ts[u].st = "done"}}

\* C14 as stated: in the step in which restoration finishes, the name set
\* is the one it found when it started, every agent whose verification
\* succeeded has a prober, and every agent whose verification failed has
\* status inactive and no prober.
C14_Original ==
    [][\A n \in DOMAIN agentRec, reachable \in BOOLEAN :
          (RestoreAgent(n, reachable) /\ ~ Restoring')
             => /\ agentSet' = restore.found
                /\ \A m \in restore.found :
                     IF m \in VerifiedNames(tasks')
                     THEN HasTask(ping_tasks', m)
                     ELSE /\ agentRec'[m].status = "inactive"
                          /\ ~ HasTask(ping_tasks', m)]_vars

\* C14 amended: no step of restoration changes which names are registered;
\* in the step in which restoration finishes, every agent whose verification
\* succeeded has a live prober and is registered, or its prober has evicted
\* it after max_failures failed probes and it is not registered and has no
\* prober; every agent whose verification failed is registered with status
\* inactive and has no prober; and the name set is the one restoration
\* found less the evicted names.
C14_RestorationKeepsAgents ==
    [][\A n \in DOMAIN agentRec, reachable \in BOOLEAN :
          RestoreAgent(n, reachable)
             => /\ agentSet' = agentSet
                /\ \A m \in DOMAIN agentRec :
                     (agentRec'[m] = NoRec) <=> (agentRec[m] = NoRec)
                /\ ~ Restoring' =>
                     /\ agentSet' = restore.found \ EvictedNames(tasks')
                     /\ \A m \in restore.found :
                          IF m \in VerifiedNames(tasks')
                          THEN \/ /\ HasTask(ping_tasks', m)
                                  /\ tasks'[ping_tasks'[m]].st = "live"
                                  /\ agentRec'[m] # NoRec
                               \/ /\ m \in EvictedNames(tasks')
                                  /\ \A t \in DOMAIN tasks' :
                                       tasks'[t].name = m =>
                                          tasks'[t].fails >= max_failures
                                  /\ agentRec'[m] = NoRec
                                  /\ ~ HasTask(ping_tasks', m)
                          ELSE /\ agentRec'[m].status = "inactive"
                               /\ ~ HasTask(ping_tasks', m)]_vars

\* restoration has just finished: one agent was verified and evicted by its
\* prober meanwhile, another failed its verification
C14_Witness ==
    /\ restore.pc = "done"
    /\ \E m \in DOMAIN agentRec :
         /\ m \in EvictedNames(tasks)
         /\ agentRec[m] = NoRec
    /\ \E m \in DOMAIN agentRec :
         /\ m \notin VerifiedNames(tasks)
         /\ agentRec[m].status = "inactive"
         /\ agentRec[m].last_verified = AtUpdate
         /\ ~ HasTask(ping_tasks, m)

\* C15: at any time no two live prober tasks have the same agent name; a
\* step that replaces the prober-table entry of a name leaves the replaced
\* task cancelled and stores a new task; and a cancelled task takes no step
\* of the prober loop and is never changed again.
C15_OneLiveProber ==
    /\ [](\A t, u \in DOMAIN tasks :
            (/\ tasks[t].st = "live" /\ tasks[u].st = "live"
             /\ tasks[t].name = tasks[u].name) => t = u)
    /\ [][/\ \A n \in DOMAIN ping_tasks :
               (n \in DOMAIN ping_tasks' /\ ping_tasks'[n] # ping_tasks[n])
                  => /\ tasks'[ping_tasks[n]].st = "cancelled"
                     /\ ping_tasks'[n] \notin DOMAIN tasks
                     /\ tasks'[ping_tasks'[n]] = NewTask(n)
          /\ \A t \in DOMAIN tasks :
               tasks[t].st = "cancelled"
                  => /\ tasks'[t] = tasks[t]
                     /\ \A success \in BOOLEAN : ~ ping_agent_loop(t, success)]_vars

C15_Witness ==
    \E n \in AgentNames, t, u \in DOMAIN tasks :
        /\ tasks[t].name = n /\ tasks[t].st = "cancelled"
        /\ tasks[u].name = n /\ tasks[u].st = "live"
        /\ HasTask(ping_tasks, n) /\ ping_tasks[n] = u
        /\ resp.op = "register" /\ resp.code = 200

\* C16: a delete request for a registered agent answers 200 and leaves the
\* agent without record, without name-set entry and without prober-table
\* entry, the task that was its prober cancelled, and every other agent and
\* task as it was; a delete request for a name that is not registered
\* answers 404 and changes neither the registry nor the prober table nor a
\* task.
C16_DeleteAgent ==
    [][\A segment \in Segments :
          DeleteRequest(segment) =>
             IF segment \in DOMAIN agentRec /\ agentRec[segment] # NoRec
             THEN /\ resp'.op = "delete" /\ resp'.code = 200
                  /\ agentRec' = [agentRec EXCEPT ![segment] = NoRec]
                  /\ agentSet' = agentSet \ {segment}
                  /\ ping_tasks' = DictDel(ping_tasks, segment)
                  /\ \A t \in DOMAIN tasks :
                       tasks'[t] = IF HasTask(ping_tasks, segment)
                                      /\ ping_tasks[segment] = t
                                   THEN [name |-> segment, st |-> "cancelled",
                                         fails |-> 0, streak |-> 0]
                                   ELSE tasks[t]
             ELSE /\ resp'.op = "delete" /\ resp'.code = 404
                  /\ UNCHANGED <<agentRec, agentSet, ping_tasks, tasks>>]_vars

C16_Witness ==
    /\ resp.op = "delete" /\ resp.code = 200
    /\ \E n \in AgentNames, t \in DOMAIN tasks :
         /\ tasks[t].name = n /\ tasks[t].st = "cancelled"
         /\ agentRec[n] = NoRec /\ n \notin agentSet
         /\ ~ HasTask(ping_tasks, n)
         /\ \A u \in DOMAIN tasks : tasks[u].st # "live"

\* C17: a DELETE /platform/agents/cleanup request answers 200 with
\* deleted_count equal to the number of agents registered before it, and
\* leaves the registry and the prober table empty and every task that was a
\* prober cancelled.
C17_CleanupAll ==
    [][DeleteRequest("cleanup") =>
          /\ resp'.op = "cleanup" /\ resp'.code = 200
          /\ resp'.count = Cardinality(agentSet)
          /\ agentSet' = {}
          /\ \A n \in DOMAIN agentRec : agentRec'[n] = NoRec
          /\ ping_tasks' = << >>
          /\ \A n \in DOMAIN ping_tasks :
               tasks'[ping_tasks[n]].st = "cancelled"]_vars

(***************************************************************************)
(* Further properties of the flow execution engine.                        *)
(***************************************************************************)
\* the entry has answered a call with its output
Produced(u) == u \in DOMAIN run /\ run[u].st = "ok"

\* the result the engine holds for an upstream when it launches a wave: the
\* output of an entry that has succeeded, {} for one that failed, has not
\* run or is no entry of the flow
ResultAtLaunch(u) == IF Produced(u) THEN Out(u) ELSE Empty

UpstreamsOf(n) == Config(eng.agents, n).upstream_agents

\* C18 as stated: an entry that has been launched has as its input the
\* initial input if it has no upstream, the output of its single upstream
\* if it has one that produced an output, and otherwise a map whose keys
\* are its upstreams and that holds the output of every upstream that
\* produced one.
C18_Original ==
    \A n \in DOMAIN run :
        run[n].st # "none" =>
            LET ups == UpstreamsOf(n) IN
            IF ups = <<>> THEN run[n].input = eng.input_data
            ELSE IF Len(ups) = 1
            THEN Produced(ups[1]) => run[n].input = Out(ups[1])
            ELSE /\ {p[1] : p \in run[n].input} = {ups[i] : i \in DOMAIN ups}
                 /\ \A i \in DOMAIN ups :
                      Produced(ups[i]) =>
                         <<ups[i], Nested(Out(ups[i]))>> \in run[n].input

\* C18 amended: in the step that launches an entry, its input is the
\* initial input if it has no upstream; the result held for its single
\* upstream at that moment if it has one (the upstream's output if it has
\* succeeded, {} if it failed, has not run yet or is no entry of the flow);
\* and otherwise the map from each upstream name to that result.
C18_InputAtLaunch ==
    [][\A n \in DOMAIN run :
          run'[n].launches = run[n].launches + 1 =>
             LET ups == UpstreamsOf(n) IN
             run'[n].input =
                IF ups = <<>> THEN eng.input_data
                ELSE IF Len(ups) = 1 THEN ResultAtLaunch(ups[1])
                ELSE {<<ups[i], Nested(ResultAtLaunch(ups[i]))>> :
                        i \in DOMAIN ups}]_vars

\* an entry with two upstreams ran on the output of one and on {} for the
\* other, an optional entry of its own wave that has succeeded since
C18_Witness ==
    \E n \in DOMAIN run :
        /\ run[n].st = "ok"
        /\ Len(UpstreamsOf(n)) = 2
        /\ \E u, v \in DOMAIN run :
             /\ u # v /\ u # n /\ v # n
             /\ Produced(u) /\ Produced(v)
             /\ run[n].input = {<<u, Nested(Out(u))>>, <<v, "{}">>}

\* the entries no entry of the flow lists as upstream
Terminals(agents) ==
    {n \in Names(agents) :
        \A j \in DOMAIN agents :
            \A k \in DOMAIN agents[j].upstream_agents :
                agents[j].upstream_agents[k] # n}

\* the output of an entry of a finished flow: what it answered, {} when it
\* failed
OutputOf(n) == IF Produced(n) THEN Out(n) ELSE Empty

TwoCycle(agents) ==
    /\ Len(agents) = 2
    /\ agents[1].upstream_agents = <<agents[2].agent_name>>
    /\ agents[2].upstream_agents = <<agents[1].agent_name>>
    /\ agents[1].agent_name # agents[2].agent_name

\* the readiness check passed: every required entry is registered and
\* answered the probe
PassedHealthCheck ==
    /\ \A n \in RequiredNames : Registered(n)
    /\ eng.unresponsive = {}

\* C20 as stated: an execution of the two-entry cycle that has ended has
\* raised, its record has status failed, and the error is
\* CircularOrMissingDependency naming both entries.
C20_Original ==
    (Done /\ Created /\ TwoCycle(eng.agents)) =>
        /\ eng.outcome = "RuntimeError"
        /\ eng.error.kind = "CircularOrMissingDependency"
        /\ FlowNames \subseteq eng.error.names
        /\ RecordExists => (Record.status = "failed" /\ Record.error = eng.error)

\* C20 amended: an execution of the two-entry cycle that has ended has
\* raised and its record, unless the flow was deleted meanwhile, has status
\* failed with the error raised; the error is NoStartAgents, which names no
\* entry, when the readiness check passed and FlowNotReady when it did not;
\* no entry of the flow was invoked.
C20_TwoCycleFails ==
    (Done /\ Created /\ TwoCycle(eng.agents)) =>
        /\ eng.outcome = "RuntimeError"
        /\ RecordExists => (Record.status = "failed" /\ Record.error = eng.error)
        /\ IF PassedHealthCheck
           THEN eng.error = Error("NoStartAgents", {})
           ELSE eng.error.kind = "FlowNotReady"
        /\ \A n \in FlowNames : run[n] = NoRun

C20_Witness ==
    /\ Done /\ Created /\ TwoCycle(eng.agents)
    /\ RequiredNames = FlowNames
    /\ eng.probed = FlowNames
    /\ PassedHealthCheck
    /\ RecordExists
    /\ Record.status = "failed"
    /\ Record.error = Error("NoStartAgents", {})

\* C21: an execution of a flow whose graph has a cycle never returns and
\* its record never has status completed; when it has ended it has raised
\* and the record, if the flow still exists, has status failed.
C21_CyclicNeverCompletes ==
    (Created /\ ~ Acyclic(eng.agents)) =>
        /\ NeverCompleted
        /\ Done => /\ eng.outcome = "RuntimeError"
                   /\ RecordExists => Record.status = "failed"

(***************************************************************************)
(* The flow store: flows created over HTTP and by import_flow_data, their  *)
(* agent lists, export_flow_data.  RedisClient is synchronous, so each     *)
(* store method is one step.  In this part `flows` maps every flow id of   *)
(* the set "flows" to its hash and its agents list.                        *)
(***************************************************************************)
\* the most flows the store holds at a time
MaxFlows == 2
\* the most agent entries the flows of the store hold together
MaxEntries == 2

\* the flow ids: one more than the store holds, so that a new id is at hand
\* when a flow replaces another
FlowIds   == 1..(MaxFlows + 1)

\* str(uuid.uuid4()): an id no flow of the store has.  Ids are opaque to the
\* code, so the least one stands for every choice.
Uuid4(fl) ==
    CHOOSE flow_id \in FlowIds \ DOMAIN fl :
        \A other \in FlowIds \ DOMAIN fl : flow_id <= other
FlowNamePool == {"f", "g"}
\* the agent names of the entries
EntryNames == {AllNames[1], AllNames[2]}

\* an entry of the "agents" list of a flow object (the input of
\* import_flow_data, the output of export_flow_data)
FlowObjectEntry(name) ==
    [agent_name |-> name,
     upstream_agents |-> IF name = AllNames[1] THEN <<>> ELSE <<AllNames[1]>>,
     required |-> name # AllNames[2],
     description |-> "step"]

\* agent_config of add_agent_to_flow: the entry and its added_at timestamp
AgentConfig(entry) == entry @@ [added_at |-> "at_add"]

\* the sequences without repetition over the set S
RECURSIVE Arrangements(_)
Arrangements(S) ==
    {<<>>} \cup UNION {{<<x>> \o rest : rest \in Arrangements(S \ {x})} : x \in S}

\* flow objects: a name, a description, a list of entries with distinct
\* agent names
FlowObjects ==
    {[name |-> name, description |-> description,
      agents |-> [i \in DOMAIN order |-> FlowObjectEntry(order[i])]] :
     name \in FlowNamePool, description \in {""},
     order \in UNION {Arrangements(T) : T \in SUBSET EntryNames}}

\* create_flow: hset flow:{id}, sadd flows, delete flow:{id}:agents
RedisClient_create_flow(fl, flow_id, name, description) ==
    DictSet(fl, flow_id, [name |-> name, description |-> description, agents |-> <<>>])

\* flow_name_exists: some flow of the set carries the name
RedisClient_flow_name_exists(fl, name) ==
    \E flow_id \in DOMAIN fl : fl[flow_id].name = name

\* add_agent_to_flow without the scan for an entry of the same name
Faulty_add_agent_no_scan(fl, flow_id, entry) ==
    IF flow_id \notin DOMAIN fl THEN [ok |-> FALSE, fl |-> fl]
    ELSE [ok |-> TRUE,
          fl |-> [fl EXCEPT ![flow_id].agents = <<AgentConfig(entry)>> \o @]]

\* add_agent_to_flow: False when the flow is missing or an entry of the list
\* has the agent_name; else lpush, which puts the entry at the head
RedisClient_add_agent_to_flow(fl, flow_id, entry) ==
    IF flow_id \notin DOMAIN fl THEN [ok |-> FALSE, fl |-> fl]
    ELSE IF \E i \in DOMAIN fl[flow_id].agents :
                fl[flow_id].agents[i].agent_name = entry.agent_name
         THEN [ok |-> FALSE, fl |-> fl]
         ELSE [ok |-> TRUE,
               fl |-> [fl EXCEPT ![flow_id].agents = <<AgentConfig(entry)>> \o @]]

\* delete_flow: the hash, the agents list, the member of the set
RedisClient_delete_flow(fl, flow_id) == DictDel(fl, flow_id)

\* export_flow_data: name, description and, in the order of lrange 0 -1,
\* the four exported fields of every entry
RedisClient_export_flow_data(fl, flow_id) ==
    [name |-> fl[flow_id].name,
     description |-> fl[flow_id].description,
     agents |-> [i \in DOMAIN fl[flow_id].agents |->
                   [k \in {"agent_name", "upstream_agents", "required", "description"} |->
                       fl[flow_id].agents[i][k]]]]

\* the loop of import_flow_data over the entries: add_agent_to_flow for each,
\* in the order of the input
RECURSIVE AddAll(_, _, _)
AddAll(fl, flow_id, entries) ==
    IF entries = <<>> THEN fl
    ELSE AddAll(RedisClient_add_agent_to_flow(fl, flow_id, Head(entries)).fl,
                flow_id, Tail(entries))

\* import_flow_data that never looks for the name
Faulty_import_no_name_check(fl, flow_id, victim, flow_data, overwrite_existing) ==
    [raised |-> FALSE,
     fl |-> AddAll(RedisClient_create_flow(fl, flow_id, flow_data.name, flow_data.description),
                   flow_id, flow_data.agents)]

\* import_flow_data: ValueError when the name exists and overwrite_existing
\* is false; with overwrite_existing the first flow of smembers that has the
\* name (victim) is deleted, then the flow is created under the new id
\* flow_id and the entries are added.
RedisClient_import_flow_data(fl, flow_id, victim, flow_data, overwrite_existing) ==
    IF ~ overwrite_existing /\ RedisClient_flow_name_exists(fl, flow_data.name)
    THEN [raised |-> TRUE, fl |-> fl]
    ELSE LET kept == IF overwrite_existing /\ RedisClient_flow_name_exists(fl, flow_data.name)
                     THEN RedisClient_delete_flow(fl, victim) ELSE fl
         IN  [raised |-> FALSE,
              fl |-> AddAll(RedisClient_create_flow(kept, flow_id, flow_data.name,
                                                    flow_data.description),
                            flow_id, flow_data.agents)]

\* the flows smembers can yield first among those named `name`
Victims(fl, name) ==
    IF RedisClient_flow_name_exists(fl, name)
    THEN {flow_id \in DOMAIN fl : fl[flow_id].name = name}
    ELSE {0}

\* the number of agent entries in the store
RECURSIVE EntryCount(_)
EntryCount(fl) ==
    IF DOMAIN fl = {} THEN 0
    ELSE LET flow_id == CHOOSE f \in DOMAIN fl : TRUE
         IN  Len(fl[flow_id].agents) + EntryCount(DictDel(fl, flow_id))

\* POST /flows: 400 without a name, else create_flow(name) under a new uuid
create_flow(body) ==
    /\ IF body.missing
       THEN /\ resp' = Response("create_flow", 400, 0, "-")
            /\ UNCHANGED flows
       ELSE /\ Cardinality(DOMAIN flows) < MaxFlows
            /\ flows' = RedisClient_create_flow(flows, Uuid4(flows), body.name, "")
            /\ resp' = Response("create_flow", 201, 0, "-")
    /\ UNCHANGED <<agentRec, agentSet, ping_tasks, tasks, restore, reqs,
                   execs, execList, eng, run>>

\* POST /flows/{flow_id}/agents: 400 without agent_name; add_agent_to_flow;
\* on False 404 when the flow is missing, else 409
add_agent_to_flow(flow_id, body) ==
    /\ IF body.missing
       THEN /\ resp' = Response("add_agent_to_flow", 400, 0, "-")
            /\ UNCHANGED flows
       ELSE LET r == RedisClient_add_agent_to_flow(flows, flow_id, FlowObjectEntry(body.name))
            IN  /\ EntryCount(r.fl) <= MaxEntries
                /\ flows' = r.fl
                /\ resp' = Response("add_agent_to_flow",
                                    IF r.ok THEN 200
                                    ELSE IF ~ RedisClient_get_flow(flows, flow_id) THEN 404
                                    ELSE 409, 0, "-")
    /\ UNCHANGED <<agentRec, agentSet, ping_tasks, tasks, restore, reqs,
                   execs, execList, eng, run>>

\* DELETE /flows/{flow_id}: 404 when delete_flow finds no flow
delete_flow_request(flow_id) ==
    /\ flows' = IF RedisClient_get_flow(flows, flow_id)
                THEN RedisClient_delete_flow(flows, flow_id) ELSE flows
    /\ resp' = Response("delete_flow",
                        IF RedisClient_get_flow(flows, flow_id) THEN 200 ELSE 404, 0, "-")
    /\ UNCHANGED <<agentRec, agentSet, ping_tasks, tasks, restore, reqs,
                   execs, execList, eng, run>>

\* a call of import_flow_data; the response records whether it raised
import_flow_data(flow_data, overwrite_existing) ==
    /\ \E victim \in Victims(flows, flow_data.name) :
         LET r == RedisClient_import_flow_data(flows, Uuid4(flows), victim, flow_data,
                                               overwrite_existing)
         IN  /\ Cardinality(DOMAIN r.fl) <= MaxFlows
             /\ EntryCount(r.fl) <= MaxEntries
             /\ flows' = r.fl
             /\ resp' = Response("import_flow_data", 0, 0,
                                 IF r.raised THEN "ValueError" ELSE "returned")
    /\ UNCHANGED <<agentRec, agentSet, ping_tasks, tasks, restore, reqs,
                   execs, execList, eng, run>>

\* the bodies of the two POST requests
FlowBodies  == {[missing |-> m, name |-> n] : m \in BOOLEAN, n \in FlowNamePool}
AgentBodies == {[missing |-> m, name |-> n] : m \in BOOLEAN, n \in EntryNames}

\* an empty store, no agent registered, the platform started
InitStore ==
    /\ flows = << >>
    /\ agentSet = {}
    /\ agentRec = << >>
    /\ ping_tasks = << >>
    /\ tasks = <<>>
    /\ restore = [pc |-> "done", todo |-> {}, found |-> {}]
    /\ reqs = {}
    /\ resp = NoResponse
    /\ execs = << >>
    /\ execList = <<>>
    /\ eng = IdleEngine
    /\ run = << >>

NextStore ==
    \/ \E body \in FlowBodies : create_flow(body)
    \/ \E flow_id \in FlowIds, body \in AgentBodies : add_agent_to_flow(flow_id, body)
    \/ \E flow_id \in FlowIds : delete_flow_request(flow_id)
    \/ \E flow_data \in FlowObjects, overwrite_existing \in BOOLEAN :
         import_flow_data(flow_data, overwrite_existing)

SpecStore == InitStore /\ [][NextStore]_vars

(***************************************************************************)
(* Properties of the flow store (specification SpecStore).                 *)
(***************************************************************************)
\* the id under which the step created a flow
NewFlowId == CHOOSE flow_id \in (DOMAIN flows') \ (DOMAIN flows) : TRUE

\* C22: when import_flow_data(F) returns, export_flow_data of the flow it
\* created has the name, the description and the agents sequence of F, entry
\* by entry in the same order.
C22_RoundTrip ==
    [][\A flow_data \in FlowObjects, overwrite_existing \in BOOLEAN :
         (resp'.probe = "returned" /\ import_flow_data(flow_data, overwrite_existing))
             => RedisClient_export_flow_data(flows', NewFlowId) = flow_data]_vars

\* C23: import_flow_data without overwrite_existing of an object whose name
\* a flow of the store carries raises (ValueError "already exists") and
\* leaves the store as it was: no flow deleted, none created, no entry added.
C23_ImportNameConflict ==
    [][\A flow_data \in FlowObjects :
         (/\ resp'.op = "import_flow_data"
          /\ RedisClient_flow_name_exists(flows, flow_data.name)
          /\ import_flow_data(flow_data, FALSE))
             => (resp'.probe = "ValueError" /\ flows' = flows)]_vars

C23_Witness ==
    /\ resp.op = "import_flow_data"
    /\ resp.probe = "ValueError"
    /\ \E flow_id \in DOMAIN flows : flows[flow_id].agents # <<>>

\* C25: no two flows of the store carry the same name, however they were
\* created.
C25_UniqueFlowNames ==
    \A f1 \in DOMAIN flows, f2 \in DOMAIN flows :
        flows[f1].name = flows[f2].name => f1 = f2

\* the flows that carry the name
Named(fl, name) == {flow_id \in DOMAIN fl : fl[flow_id].name = name}

\* C24: after import_flow_data with overwrite_existing of an object whose
\* name a flow of the store carries, no flow that carried the name before
\* the import resolves by its flow_id, and the flow the import created does
\* and carries the name.
C24_OverwriteReplaces ==
    [][\A flow_data \in FlowObjects :
         (/\ resp'.op = "import_flow_data"
          /\ RedisClient_flow_name_exists(flows, flow_data.name)
          /\ import_flow_data(flow_data, TRUE))
             => /\ \A flow_id \in Named(flows, flow_data.name) :
                     ~ RedisClient_get_flow(flows', flow_id)
                /\ \E flow_id \in (DOMAIN flows') \ (DOMAIN flows) :
                     flows'[flow_id].name = flow_data.name]_vars

\* the list has no two entries of the same agent_name
DistinctNames(agents) ==
    \A i \in DOMAIN agents, j \in DOMAIN agents :
        agents[i].agent_name = agents[j].agent_name => i = j

\* C26: no flow ever holds two entries of the same agent_name; a request to
\* add an agent_name the flow holds gets 409 and one for an unknown flow gets
\* 404, and either leaves every flow and every agents list as it was.
C26_UniqueAgentNames ==
    /\ [](\A flow_id \in DOMAIN flows : DistinctNames(flows[flow_id].agents))
    /\ [][\A flow_id \in FlowIds, body \in AgentBodies :
            (/\ resp'.op = "add_agent_to_flow"
             /\ ~ body.missing
             /\ add_agent_to_flow(flow_id, body))
                => /\ ~ RedisClient_get_flow(flows, flow_id)
                        => (resp'.code = 404 /\ flows' = flows)
                   /\ (/\ RedisClient_get_flow(flows, flow_id)
                       /\ body.name \in Names(flows[flow_id].agents))
                        => (resp'.code = 409 /\ flows' = flows)]_vars

C26_Witness ==
    /\ resp.op = "add_agent_to_flow"
    /\ resp.code = 409
    /\ \E flow_id \in DOMAIN flows : Names(flows[flow_id].agents) = EntryNames

(***************************************************************************)
(* The executions list of a flow: create_flow_execution called again and   *)
(* again for the flow FlowId (specification SpecExecutions).               *)
(***************************************************************************)
\* the executions created in a behaviour
MaxExecs == 102

\* create_flow_execution: the record with status pending, the id pushed on
\* the list, the list trimmed
create_flow_execution ==
    /\ NextExecutionId(execList) <= MaxExecs
    /\ LET id == NextExecutionId(execList) IN
         /\ execs' = DictSet(execs, id, NewExecution(Input))
         /\ execList' = PushExecution(execList, id)
    /\ UNCHANGED <<regVars, flows, eng, run>>

\* the flow FlowId without an execution
InitExecutions ==
    /\ flows = [f \in {FlowId} |-> [name |-> "flow", agents |-> <<>>]]
    /\ agentSet = {}
    /\ agentRec = << >>
    /\ ping_tasks = << >>
    /\ tasks = <<>>
    /\ restore = [pc |-> "done", todo |-> {}, found |-> {}]
    /\ reqs = {}
    /\ resp = NoResponse
    /\ execs = << >>
    /\ execList = <<>>
    /\ eng = IdleEngine
    /\ run = << >>

NextExecutions == create_flow_execution

SpecExecutions == InitExecutions /\ [][NextExecutions]_vars

\* the executions created so far (their records are never deleted here)
CreatedExecutions == Cardinality(DOMAIN execs)

\* C27: the executions list never holds more than ExecListMax (100) ids and
\* is the most recent executions, newest first; a creation puts the new id
\* at the head and, when the list was full, drops the id at the tail, the
\* oldest one, keeping the others in their order.
C27_ExecutionList ==
    /\ [](/\ Len(execList) <= ExecListMax
          /\ Len(execList) = IF CreatedExecutions > ExecListMax
                             THEN ExecListMax ELSE CreatedExecutions
          /\ \A i \in DOMAIN execList : execList[i] = CreatedExecutions - i + 1)
    /\ [][create_flow_execution =>
            /\ Head(execList') \notin DOMAIN execs
            /\ Tail(execList') = IF Len(execList) = ExecListMax
                                 THEN SubSeq(execList, 1, ExecListMax - 1)
                                 ELSE execList]_vars

\* the list is full and the first executions have been dropped from it
C27_Witness ==
    /\ Len(execList) = ExecListMax
    /\ CreatedExecutions > ExecListMax
    /\ execList[ExecListMax] = CreatedExecutions - ExecListMax + 1

(***************************************************************************)
(* Deletion of a flow with executions (specification SpecFlow).            *)
(***************************************************************************)
\* get_flow_execution: None when flow:{id}:execution:{execution_id} is gone
RedisClient_get_flow_execution(ex, execution_id) == execution_id \in DOMAIN ex

C29_MalformedRejected ==
    /\ [][\A agent_data \in Malformed :
            register_agent(agent_data)
                => /\ resp' = Response("register", 400, 0, "-")
                   /\ UNCHANGED <<agentRec, agentSet, ping_tasks, tasks, reqs>>]_vars
    /\ [](\A n \in AgentNames : Registered(n) => agentRec[n].capabilities # <<>>)

C29_Witness ==
    /\ resp = Response("register", 400, 0, "-")
    /\ \E n \in AgentNames : Registered(n) /\ HasTask(ping_tasks, n)

(***************************************************************************)
(* The retry loop of a node (specification SpecFlow).                      *)
(***************************************************************************)
\* the attempts value stored in agent_results for the node, 0 when the
\* record or the node's result is not there
RecordedAttempts(n) ==
    IF RecordExists /\ n \in DOMAIN Record.agent_results
    THEN Record.agent_results[n].attempts ELSE 0

HasRecordedResult(n) == RecordExists /\ n \in DOMAIN Record.agent_results

\* C30 as stated: the attempts value recorded for a node equals the number
\* of invocations of its agent.
C30_Original ==
    \A n \in DOMAIN run :
        HasRecordedResult(n) => RecordedAttempts(n) = run[n].calls

\* C30: a node makes at most retry_count attempts, one after the other, and
\* none after a successful one; the attempts value recorded for it is the
\* number of attempts made (retry_count when every attempt failed).  Each
\* attempt invokes the agent when the agent is in the registry and fails
\* without an invocation when it is not.
C30_Attempts ==
    /\ [](\A n \in DOMAIN run :
            /\ run[n].attempt <= retry_count
            /\ run[n].calls = IF Registered(n) THEN run[n].attempt ELSE 0
            /\ run[n].st = "failed" => run[n].attempt = retry_count
            /\ HasRecordedResult(n) =>
                 /\ Settled(run[n])
                 /\ RecordedAttempts(n) = run[n].attempt
                 /\ Record.agent_results[n].status =
                        IF run[n].st = "ok" THEN "completed" ELSE "failed")
    /\ [][\A n \in DOMAIN run :
            /\ run'[n].attempt \in {run[n].attempt, run[n].attempt + 1}
                 \/ (run'[n].attempt = 0 /\ run'[n].launches = run[n].launches + 1)
            /\ Settled(run[n]) =>
                 (run'[n].attempt = run[n].attempt /\ run'[n].calls = run[n].calls)]_vars

\* a registered node answered at its second or third attempt, and a node
\* whose agent is not in the registry failed every attempt
C30_Witness ==
    \E n \in DOMAIN run, m \in DOMAIN run :
        /\ run[n].st = "ok" /\ run[n].attempt >= 2
        /\ RecordedAttempts(n) = run[n].attempt
        /\ run[m].st = "failed" /\ ~ Registered(m)
        /\ RecordedAttempts(m) = retry_count

(***************************************************************************)
(* Waves of an execution (specifications SpecFlow and SpecDiamond).        *)
(***************************************************************************)
\* the nodes whose coroutine is running or between two attempts
RunningNodes == {n \in DOMAIN run : run[n].st = "running"}

\* the nodes the step launches
LaunchedNow == {n \in DOMAIN run : run'[n].launches > run[n].launches}

\* C31: a step that launches nodes finds no node running or retrying, so
\* every node of the wave before has settled when the next ready set is
\* computed; the nodes that run are nodes of the current wave, and an agent
\* is invoked only for a node of the current wave.
C31_WaveBarrier ==
    /\ [](\A n \in RunningNodes :
            eng.pc = "wave" /\ \E i \in DOMAIN eng.wave : eng.wave[i] = n)
    /\ [][/\ LaunchedNow # {} => RunningNodes = {}
          /\ \A n \in DOMAIN run :
                run'[n].calls > run[n].calls =>
                    \E i \in DOMAIN eng.wave : eng.wave[i] = n]_vars

\* the second wave runs after a first wave of several nodes, one of which
\* needed a retry
C31_Witness ==
    /\ eng.pc = "wave"
    /\ eng.waves = 2
    /\ RunningNodes # {}
    /\ \E n \in DOMAIN run, m \in DOMAIN run :
          n # m /\ Settled(run[n]) /\ Settled(run[m]) /\ run[n].attempt >= 2

\* the required nodes whose last attempt failed
FailedRequired == FailedNames \cap RequiredNames

\* C32: once the last attempt of a required node has failed no node is
\* launched any more; the execution is marked failed only in a step that
\* finds every node of the wave settled, so the other nodes of the wave run
\* to their end, retries included; the failed record names a required node
\* that failed and its output_data is empty, whatever the other nodes
\* produced.
C32_RequiredFailureStops ==
    /\ [][/\ FailedRequired # {} => LaunchedNow = {}
          /\ (FailedRequired # {} /\ eng.pc = "wave" /\ eng'.pc = "done")
                => /\ Gathered(eng.wave)
                   /\ run' = run]_vars
    /\ []((FailedRequired # {} /\ Done) =>
            /\ eng.outcome = "RuntimeError"
            /\ eng.error.kind = "RequiredAgentFailed"
            /\ eng.error.names \subseteq FailedRequired
            /\ RunningNodes = {}
            /\ RecordExists => /\ Record.status = "failed"
                               /\ Record.output_data = Empty)

\* a required node failed, another node of the same wave answered after a
\* retry and has its result recorded, a node of a later wave was never
\* launched, and the execution has ended
C32_Witness ==
    /\ Done
    /\ FailedRequired # {}
    /\ \E m \in DOMAIN run, k \in DOMAIN run :
          /\ run[m].st = "ok" /\ run[m].attempt >= 2
          /\ \E i \in DOMAIN eng.wave : eng.wave[i] = m
          /\ HasRecordedResult(m)
          /\ run[k].launches = 0

(***************************************************************************)
(* Diamond flows (specification SpecDiamond): a start entry, MaxBranches   *)
(* entries that list the start entry as their upstream, and a last entry   *)
(* that lists every one of those.  Every entry is required or optional,    *)
(* every agent is registered.                                              *)
(***************************************************************************)
MaxBranches == 2

DiamondNames == NodesOf(MaxBranches + 2)

Branches == {AllNames[i] : i \in 2..(MaxBranches + 1)}

Sink == AllNames[MaxBranches + 2]

DiamondFlows ==
    {[i \in 1..(MaxBranches + 2) |->
        Entry(AllNames[i],
              IF i = 1 THEN <<>>
              ELSE IF i = MaxBranches + 2
              THEN [j \in 1..MaxBranches |-> AllNames[j + 1]]
              ELSE <<AllNames[1]>>,
              AllNames[i] \in R)] :
     R \in SUBSET DiamondNames}

InitDiamond ==
    /\ \E agents \in DiamondFlows :
         /\ flows = [f \in {FlowId} |-> [name |-> "flow", agents |-> agents]]
         /\ run = [n \in Names(agents) |-> NoRun]
    /\ agentSet = DiamondNames
    /\ agentRec = [n \in DiamondNames |-> ActiveRec]
    /\ ping_tasks = << >>
    /\ tasks = <<>>
    /\ restore = [pc |-> "done", todo |-> {}, found |-> {}]
    /\ reqs = {}
    /\ resp = NoResponse
    /\ execs = << >>
    /\ execList = <<>>
    /\ eng = IdleEngine

NextDiamond ==
    \/ execute_flow
    \/ flow_running
    \/ \E responding \in BOOLEAN : check_flow_health(responding)
    \/ \E n \in DiamondNames, success \in BOOLEAN : execute_agent_attempt(n, success)
    \/ gather_returns

SpecDiamond == InitDiamond /\ [][NextDiamond]_vars

\* the composed input of the last entry holds v under the name u
Contributes(u, v) == <<u, v>> \in run[Sink].input

\* C33 as stated: when the last entry has been launched, every optional
\* upstream that failed all its attempts is in its input with {} and every
\* other upstream with the output it produced.
C33_Original ==
    run[Sink].st # "none" =>
        \A u \in Branches :
            /\ (u \in FailedNames /\ u \in OptionalNames) => Contributes(u, "{}")
            /\ Produced(u) => Contributes(u, Nested(Out(u)))

\* C33: the input of the last entry has one key for each upstream; an
\* optional upstream that failed all its attempts is in it with {}, and an
\* upstream that produced its output is in it with that output when one of
\* the upstreams is required, so that the last entry is launched in the wave
\* after theirs.  A failed optional entry has the record status failed,
\* attempts retry_count in agent_results, and the execution ends completed
\* whenever the readiness check has passed and no required entry has failed.
C33_Diamond ==
    /\ run[Sink].st # "none" =>
         /\ {p[1] : p \in run[Sink].input} = Branches
         /\ \A u \in Branches :
              /\ (u \in FailedNames /\ u \in OptionalNames) => Contributes(u, "{}")
              /\ (Produced(u) /\ Branches \cap RequiredNames # {})
                    => Contributes(u, Nested(Out(u)))
    /\ \A c \in FailedNames \cap OptionalNames :
         /\ HasRecordedResult(c)
         /\ Record.agent_results[c] =
               [status |-> "failed", output |-> Empty, attempts |-> retry_count]
    /\ (Done /\ FailedRequired = {} /\ eng.error.kind # "FlowNotReady") =>
         /\ eng.outcome = "returned"
         /\ Record.status = "completed"

\* the diamond of the claim has run: the second entry is required and
\* answered, the third is optional and failed every attempt, the last entry
\* was invoked with the output of the one and {} for the other, and the
\* execution ended completed
C33_Witness ==
    /\ Done
    /\ Record.status = "completed"
    /\ AllNames[2] \in RequiredNames /\ Produced(AllNames[2])
    /\ AllNames[3] \in OptionalNames /\ AllNames[3] \in FailedNames
    /\ RecordedAttempts(AllNames[3]) = retry_count
    /\ Produced(Sink)
    /\ Contributes(AllNames[2], Nested(Out(AllNames[2])))
    /\ Contributes(AllNames[3], "{}")

(***************************************************************************)
(* The scheduling loop (specification SpecFlow).                           *)
(***************************************************************************)
\* the entries no wave has launched
NeverLaunched == {n \in DOMAIN run : run[n].launches = 0}

\* C34: an execution ends with CircularOrMissingDependency exactly when the
\* scheduling loop finds entries left of which none is ready; the error
\* names the entries that were never launched, which are the entries that
\* are not completed, none of them has been or is ever invoked, and the
\* record is failed with that error.
C34_StuckNodes ==
    /\ [](eng.error.kind = "CircularOrMissingDependency" =>
            /\ Done /\ eng.outcome = "RuntimeError"
            /\ eng.error.names # {}
            /\ eng.error.names = NeverLaunched
            /\ eng.error.names = FlowNames \ eng.completed_agents
            /\ \A n \in eng.error.names :
                 /\ run[n].st = "none" /\ run[n].calls = 0
                 /\ ~ is_agent_ready(Config(eng.agents, n), eng.completed_agents,
                                     eng.agents)
            /\ RecordExists => (Record.status = "failed" /\ Record.error = eng.error))
    /\ []((Done /\ eng.outcome = "returned") => NeverLaunched = {})
    /\ [][Done => run' = run]_vars

\* a start entry has run and the execution ended on the entries left
C34_Witness ==
    /\ Done
    /\ eng.error.kind = "CircularOrMissingDependency"
    /\ RecordExists
    /\ eng.completed_agents # {}
    /\ \E n \in DOMAIN run : run[n].st = "ok"

(***************************************************************************)
(* The consecutive-failure counter of a prober.                            *)
(***************************************************************************)
\* C35: a prober evicts its agent only in an iteration that fails after
\* max_failures - 1 failed iterations in a row, and its counter is the
\* number of iterations that failed since its last success: one that succeeds
\* puts the counter back to zero, keeps the prober and its table entry and,
\* when the record exists, sets status active with a fresh last_verified;
\* an iteration that fails adds one; a running prober has fewer than
\* max_failures failures counted.
C35_ConsecutiveFailures ==
    /\ [](\A t \in DOMAIN tasks :
            /\ tasks[t].fails = tasks[t].streak
            /\ tasks[t].st = "live" => tasks[t].fails < max_failures)
    /\ [][tasks' # tasks =>
          \A t \in DOMAIN tasks :
             tasks[t].st = "live" =>
               LET name == tasks[t].name IN
               /\ ping_agent_loop(t, TRUE) =>
                    /\ tasks'[t].fails = 0 /\ tasks'[t].st = "live"
                    /\ ping_tasks' = ping_tasks
                    /\ agentSet' = agentSet
                    /\ Registered(name) =>
                         /\ agentRec'[name].status = "active"
                         /\ agentRec'[name].last_verified = AtUpdate
               /\ ping_agent_loop(t, FALSE) =>
                    tasks'[t].fails = tasks[t].fails + 1
               /\ tasks'[t].st = "done" =>
                    /\ ping_agent_loop(t, FALSE)
                    /\ tasks[t].streak = max_failures - 1
                    /\ tasks'[t].streak = max_failures]_vars

\* a prober that has counted failures again after a successful probe of its
\* registered agent
C35_Witness ==
    \E t \in DOMAIN tasks :
        /\ tasks[t].st = "live" /\ tasks[t].fails = max_failures - 1
        /\ Registered(tasks[t].name)
        /\ agentRec[tasks[t].name].status = "active"
        /\ agentRec[tasks[t].name].last_verified = AtUpdate

(***************************************************************************)
(* The results the nodes of a wave record.                                 *)
(***************************************************************************)
\* C36: while the execution record exists, agent_results holds for every
\* node that has settled the record that node wrote (status completed with
\* its output and the number of its attempts, or status failed with
\* attempts = retry_count), and the step of one node leaves the records of
\* the other nodes as they were.
C36_WaveResults ==
    /\ [](RecordExists =>
            \A n \in DOMAIN run :
               Settled(run[n]) =>
                  /\ n \in DOMAIN Record.agent_results
                  /\ LET r == Record.agent_results[n] IN
                     IF run[n].st = "ok"
                     THEN /\ r.status = "completed" /\ r.output = Out(n)
                          /\ r.attempts = run[n].attempt
                     ELSE r.status = "failed" /\ r.attempts = retry_count)
    /\ [][(RecordExists /\ eng'.execution_id = eng.execution_id) =>
            \A n \in DOMAIN Record.agent_results :
               run'[n] = run[n] =>
                  /\ eng'.execution_id \in DOMAIN execs'
                  /\ n \in DOMAIN execs'[eng'.execution_id].agent_results
                  /\ execs'[eng'.execution_id].agent_results[n]
                        = Record.agent_results[n]]_vars

\* the nodes of one wave have all settled, one completed and one failed,
\* and the record holds a result for each of them
C36_Witness ==
    /\ eng.pc = "wave" /\ Len(eng.wave) >= 2
    /\ Gathered(eng.wave)
    /\ RecordExists
    /\ \A i \in DOMAIN eng.wave : eng.wave[i] \in DOMAIN Record.agent_results
    /\ \E i, j \in DOMAIN eng.wave :
          run[eng.wave[i]].st = "ok" /\ run[eng.wave[j]].st = "failed"

(***************************************************************************)
(* Registration against concurrent requests.                               *)
(***************************************************************************)
\* C37: every name that has a prober in the table is in the registry, and a
\* registration that returns success leaves its agent in the registry with
\* a prober.
C37_RegisteredAtSuccess ==
    /\ [](\A n \in DOMAIN ping_tasks : Registered(n) /\ n \in agentSet)
    /\ [][resp'.op = "register" /\ resp'.code = 200 =>
            \A d \in WellFormed :
               register_agent_verified(d, TRUE) =>
                  /\ agentRec'[d.agent_name] # NoRec
                  /\ d.agent_name \in agentSet'
                  /\ HasTask(ping_tasks', d.agent_name)]_vars

\* C38: no step of a prober puts a record or a name into the registry: an
\* agent that is absent before an iteration of any prober, successful or
\* failed, is absent after it, in the records and in the name set.
C38_ProberNeverCreates ==
    [][(agentRec' # agentRec \/ agentSet' # agentSet \/ tasks' # tasks) =>
         \A t \in DOMAIN tasks, success \in BOOLEAN :
            ping_agent_loop(t, success) =>
               \A n \in DOMAIN agentRec :
                  /\ ~ Registered(n) => agentRec'[n] = NoRec
                  /\ n \notin agentSet => n \notin agentSet']_vars

\* a prober is in its loop for a name that has been deleted from the
\* registry, and has counted a failed probe since
C38_Witness ==
    \E t \in DOMAIN tasks :
        /\ tasks[t].st = "live"
        /\ ~ Registered(tasks[t].name) /\ tasks[t].name \notin agentSet
        /\ tasks[t].fails > 0

(***************************************************************************)
(* Launches of a node.                                                     *)
(***************************************************************************)
\* C39: a node is launched at most once in an execution: a step launches
\* only nodes that have not run and are not completed, every completed node
\* has been launched once, and an execution that ends completed has
\* launched every node of the flow exactly once.
C39_OneWave ==
    /\ [](\A n \in DOMAIN run :
            /\ run[n].launches <= 1
            /\ n \in eng.completed_agents => run[n].launches = 1)
    /\ []((Done /\ eng.outcome = "returned") =>
            /\ \A n \in FlowNames : run[n].launches = 1
            /\ RecordExists => Record.status = "completed")
    /\ [][\A n \in LaunchedNow :
            /\ run[n].st = "none" /\ run[n].launches = 0
            /\ n \notin eng.completed_agents
            /\ eng'.waves = eng.waves + 1]_vars

\* an execution of several waves has ended completed
C39_Witness ==
    /\ Done /\ eng.outcome = "returned"
    /\ RecordExists /\ Record.status = "completed"
    /\ eng.waves >= 2
    /\ Cardinality(FlowNames) >= 2
    /\ \A n \in FlowNames : run[n].launches = 1

(***************************************************************************)
(* Termination of an execution (specification SpecFlowLive).               *)
(***************************************************************************)
TerminalStatus == {"completed", "failed"}

\* C40 as stated: the record of every execution that is created and has
\* not ended reaches status completed or failed.
C40_Original ==
    (Created /\ ~ Done) ~> (RecordExists /\ Record.status \in TerminalStatus)

\* C40: every execution that is created ends, for every flow shape, and
\* when it has ended its record, unless the flow was deleted meanwhile, has
\* status completed or failed; the return of a gather either adds at least
\* one node to the completed set or fails the execution, and the completed
\* set never holds more than the nodes of the flow.
C40_ExecutionTerminates ==
    /\ (Created ~> Done)
    /\ []((Done /\ Created /\ RecordExists) => Record.status \in TerminalStatus)
    /\ [](eng.completed_agents \subseteq FlowNames)
    /\ [][(eng.pc = "wave" /\ eng' # eng) =>
            \/ /\ eng.completed_agents \subseteq eng'.completed_agents
               /\ eng'.completed_agents # eng.completed_agents
            \/ /\ eng'.pc = "done" /\ eng'.outcome = "RuntimeError"
               /\ RecordExists =>
                    execs'[eng.execution_id].status = "failed"]_vars

\* an execution of a flow with a cycle has run a wave and ended, its record
\* failed
C40_Witness ==
    /\ Done /\ Created /\ RecordExists
    /\ ~ Acyclic(eng.agents)
    /\ eng.waves >= 1
    /\ Record.status = "failed"

=============================================================================
